---- MODULE Spec2Model ----
(***************************************************************************)
(* Provider abstraction layer of llm-cli: the provider registry            *)
(* (provider-registry.ts) and the stream generators of the OpenAI,         *)
(* Anthropic and Ollama providers.                                         *)
(*                                                                         *)
(* Strings that the code cuts, joins or compares piecewise are sequences   *)
(* of symbols; every other string is a TLA+ string.                        *)
(***************************************************************************)
EXTENDS Integers, Sequences, FiniteSets, TLC

VARIABLES
  providers,      \* ModelProviderRegistry.providers: the Map, as <<name, class>> pairs in insertion order
  lastRegistered, \* history: name -> class given in the most recent register call ("" = never)
  result,         \* outcome of the most recent createProvider call
  provider,       \* which provider's createStreamGenerator is running
  stream,         \* the bytes of the HTTP response body, as sent by the backend
  wire,           \* the bytes the reader has not delivered yet
  gen,            \* the async generator object: its locals, its position, what it has yielded
  consumer,       \* what the caller of generateContentStream is doing with the sequence
  request,        \* the canonical request a provider method is called with
  call,           \* the most recent provider method call: what it sent, fetched, returned or threw
  instance,       \* the fields of the provider object most recently constructed
  streams,        \* the streams open at once on that object, each with its generator
  disk,           \* the files under .gemini, the .env file and the persisted settings
  session         \* the CLI process: clock, environment, provider manager, last operation

vars ==
  <<providers, lastRegistered, result, provider, stream, wire, gen, consumer, request, call,
    instance, streams, disk, session>>

registryVars == <<providers, lastRegistered, result>>
streamVars == <<provider, stream, wire, gen, consumer>>
callVars == <<request, call>>
instanceVars == <<instance, streams>>
cliVars == <<disk, session>>

(***************************************************************************)
(* Generic helpers                                                         *)
(***************************************************************************)
Range(s) == {s[i] : i \in 1..Len(s)}

Last(s) == s[Len(s)]

Front(s) == SubSeq(s, 1, Len(s) - 1)

RECURSIVE Flatten(_)
\* concatenation of a sequence of sequences
Flatten(ss) == IF ss = <<>> THEN <<>> ELSE Head(ss) \o Flatten(Tail(ss))

RECURSIVE Join(_, _)
\* Array.prototype.join: the elements with the separator between them
Join(s, sep) ==
  IF s = <<>> THEN <<>>
  ELSE IF Len(s) = 1 THEN <<s[1]>>
  ELSE <<s[1], sep>> \o Join(Tail(s), sep)

(***************************************************************************)
(* Provider configuration and provider classes                             *)
(***************************************************************************)
Undefined == "undefined"

\* a value JavaScript treats as false in !!x (of the values a config field takes)
Falsy(x) == x = Undefined \/ x = ""

ProviderNames == {"google", "openai", "anthropic", "ollama", "custom", "nonexistent"}

Configs ==
  [provider : ProviderNames, apiKey : {Undefined, "", "test-key"}, model : {"", "gpt-4"}]

NoConfig == [provider |-> "", apiKey |-> Undefined, model |-> ""]

\* the `name` field each class initialises
ClassName(cls) ==
  CASE cls = "GoogleProvider" -> "google"
    [] cls = "OpenAIProvider" -> "openai"
    [] cls = "AnthropicProvider" -> "anthropic"
    [] cls = "OllamaProvider" -> "ollama"
    [] OTHER -> "custom"

\* does `new cls(config)` throw?  GoogleProvider's constructor always does.
ConstructorThrows(cls) == cls = "GoogleProvider"

\* validateConfig of an instance of cls
validateConfig(cls, config) ==
  CASE cls = "GoogleProvider" -> config.provider = "google" /\ ~Falsy(config.apiKey)
    [] cls = "OpenAIProvider" ->
         config.provider = "openai" /\ ~Falsy(config.apiKey) /\ ~Falsy(config.model)
    [] cls = "AnthropicProvider" ->
         config.provider = "anthropic" /\ ~Falsy(config.apiKey) /\ ~Falsy(config.model)
    [] cls = "OllamaProvider" -> config.provider = "ollama" /\ ~Falsy(config.model)
    [] OTHER -> config.provider = "custom"

(***************************************************************************)
(* The registry's Map                                                      *)
(***************************************************************************)
MapKeys(m) == [i \in 1..Len(m) |-> m[i][1]]

MapHas(m, k) == \E i \in 1..Len(m) : m[i][1] = k

MapGet(m, k) == LET i == CHOOSE j \in 1..Len(m) : m[j][1] = k IN m[i][2]

\* a set that does not overwrite: the first registration wins
MapSetKeepFirst(m, k, v) == IF MapHas(m, k) THEN m ELSE Append(m, <<k, v>>)

\* Map.prototype.set: an existing key keeps its place and takes the new value,
\* a new key is appended
MapSet(m, k, v) ==
  IF MapHas(m, k)
  THEN [i \in 1..Len(m) |-> IF m[i][1] = k THEN <<k, v>> ELSE m[i]]
  ELSE Append(m, <<k, v>>)

\* the registry after its constructor's four register calls
ConstructedRegistry ==
  MapSet(MapSet(MapSet(MapSet(<<>>, "google", "GoogleProvider"),
                       "openai", "OpenAIProvider"),
                "anthropic", "AnthropicProvider"),
         "ollama", "OllamaProvider")

getAvailableProviders(m) == MapKeys(m)

hasProvider(m, name) == MapHas(m, name)

\* a message that lists the built-in names instead of the Map's keys
UnknownProviderMessageBuiltIn(m, name) ==
  <<"Unknown provider: ", name, ". Available providers: ">>
    \o <<"google", ", ", "openai", ", ", "anthropic", ", ", "ollama">>

\* the message of the error createProvider throws for an unregistered name
UnknownProviderMessage(m, name) ==
  <<"Unknown provider: ", name, ". Available providers: ">> \o Join(MapKeys(m), ", ")

GoogleNotImplemented ==
  <<"GoogleProvider not yet implemented - requires @google/genai import">>

NoResult ==
  [kind |-> "none", config |-> NoConfig, registry |-> <<>>, constructorCalled |-> FALSE,
   cls |-> "", name |-> "", message |-> <<>>]

\* what createProvider(config) does on the Map m
createProviderResult(m, config) ==
  IF ~MapHas(m, config.provider)
  THEN [kind |-> "error", config |-> config, registry |-> m, constructorCalled |-> FALSE,
        cls |-> "", name |-> "", message |-> UnknownProviderMessage(m, config.provider)]
  ELSE LET cls == MapGet(m, config.provider) IN
       IF ConstructorThrows(cls)
       THEN [kind |-> "error", config |-> config, registry |-> m,
             constructorCalled |-> TRUE, cls |-> cls, name |-> "",
             message |-> GoogleNotImplemented]
       ELSE [kind |-> "provider", config |-> config, registry |-> m,
             constructorCalled |-> TRUE, cls |-> cls, name |-> ClassName(cls),
             message |-> <<>>]

\* the fields of a provider object: no object constructed yet
NoInstance == [cls |-> "", apiKey |-> "", baseUrl |-> "", model |-> ""]

\* config.baseUrl is not given: the default of the class
DefaultBaseUrl(cls) ==
  CASE cls = "OpenAIProvider" -> "https://api.openai.com/v1"
    [] cls = "AnthropicProvider" -> "https://api.anthropic.com"
    [] cls = "OllamaProvider" -> "http://localhost:11434"
    [] OTHER -> ""

\* the constructor: `this.apiKey = config.apiKey || ''` (the Ollama providers
\* keep no apiKey), `this.baseUrl = config.baseUrl || <default>`,
\* `this.model = config.model`
construct(cls, config) ==
  [cls |-> cls,
   apiKey |-> IF cls = "OllamaProvider" \/ Falsy(config.apiKey) THEN "" ELSE config.apiKey,
   baseUrl |-> DefaultBaseUrl(cls),
   model |-> config.model]

(***************************************************************************)
(* Registry operations                                                     *)
(***************************************************************************)
\* the names and classes the model registers after construction
RegisterNames == {"openai", "google", "custom"}

RegisterClasses == {"OpenAIProvider", "GoogleProvider", "TestDouble"}

register(name, providerClass) ==
  /\ providers' = MapSet(providers, name, providerClass)
  /\ lastRegistered' = [lastRegistered EXCEPT ![name] = providerClass]
  /\ UNCHANGED result
  /\ UNCHANGED <<streamVars, callVars, instanceVars, cliVars>>

createProvider(config) ==
  /\ result' = createProviderResult(providers, config)
  /\ instance' = IF result'.kind = "provider" THEN construct(result'.cls, config)
                 ELSE instance
  /\ UNCHANGED <<providers, lastRegistered>>
  /\ UNCHANGED <<streamVars, callVars, streams, cliVars>>

\* the provider names createContentGenerator maps an auth type to
\* (USE_OPENAI, USE_ANTHROPIC, USE_OLLAMA)
ProviderMap == {"openai", "anthropic", "ollama"}

\* the end of createContentGenerator: for the auth types of the provider
\* system, a new registry creates the provider; others are unsupported
createContentGeneratorResult(config) ==
  IF config.provider \notin ProviderMap
  THEN [NoResult EXCEPT !.kind = "error", !.config = config,
                        !.message = <<"Error creating contentGenerator: Unsupported authType: ",
                                      config.provider>>]
  ELSE IF ~hasProvider(ConstructedRegistry, config.provider)
  THEN [NoResult EXCEPT !.kind = "error", !.config = config,
                        !.registry = ConstructedRegistry,
                        !.message = <<"Provider ", config.provider, " not available">>]
  ELSE createProviderResult(ConstructedRegistry, config)

createContentGenerator(config) ==
  /\ result' = createContentGeneratorResult(config)
  /\ instance' = IF result'.kind = "provider" THEN construct(result'.cls, config)
                 ELSE instance
  /\ UNCHANGED <<providers, lastRegistered>>
  /\ UNCHANGED <<streamVars, callVars, streams, cliVars>>

(***************************************************************************)
(* The wire format of a streamed response                                  *)
(*                                                                         *)
(* A JSON object is two symbols, its opening part (which names what the    *)
(* object holds) and its closing brace, so that a network read can end in  *)
(* the middle of an object and a truncated object is not valid JSON.       *)
(***************************************************************************)
NL == "\n"

DATA == "data: "

DONE == "[DONE]"

CLOSE == "}"

Whitespace == {" ", "\r"}

\* the opening parts of the JSON objects a backend streams
ChunkSyms == {"text:a", "text:b", "call:1", "call:2", "done"}

NoArgs == [kind |-> "absent", valid |-> TRUE, value |-> ""]

\* function.arguments of a backend tool call: absent, or a string (JSON.parse
\* accepts it when valid), or an object the backend already parsed
EmptyArguments == [kind |-> "string", valid |-> FALSE, value |-> ""]
ValidArguments == [kind |-> "string", valid |-> TRUE, value |-> "{city}"]
InvalidArguments == [kind |-> "string", valid |-> FALSE, value |-> "{city"]
ObjectArguments == [kind |-> "object", valid |-> TRUE, value |-> "{city}"]

\* objects whose one tool call, of get_time, has '' / '{city' / no arguments
ArgumentSyms == {"call:empty", "call:bad", "call:absent"}

\* a done chunk whose one tool call, of get_time, has the arguments '{city'
DoneSyms == {"done:bad"}

ArgumentsOf(sym) ==
  CASE sym = "call:empty" -> EmptyArguments
    [] sym = "call:bad" -> InvalidArguments
    [] OTHER -> NoArgs

\* JSON.parse of the object that opens with sym, with the fields the providers read:
\*   content       choices[0].delta.content | delta.text | message.content | response
\*   tool_calls    choices[0].delta.tool_calls | message.tool_calls
\*   done          done (Ollama)
\*   type          event.type (Anthropic)
\*   finish_reason choices[0].finish_reason (OpenAI)
\* "call:1" and "call:2" carry two fragments of one call of get_weather.
Chunk(sym) ==
  CASE sym = "text:a" ->
         [content |-> <<"a">>, tool_calls |-> <<>>, done |-> FALSE,
          type |-> "content_block_delta", finish_reason |-> Undefined]
    [] sym = "text:b" ->
         [content |-> <<"b">>, tool_calls |-> <<>>, done |-> FALSE,
          type |-> "content_block_delta", finish_reason |-> Undefined]
    [] sym = "call:1" ->
         [content |-> <<>>, done |-> FALSE,
          tool_calls |-> <<[hasFunction |-> TRUE, name |-> "get_weather",
                            arguments |-> [kind |-> "object", valid |-> TRUE,
                                           value |-> "fragment-1"]]>>,
          type |-> "content_block_start", finish_reason |-> Undefined]
    [] sym = "call:2" ->
         [content |-> <<>>, done |-> FALSE,
          tool_calls |-> <<[hasFunction |-> TRUE, name |-> "get_weather",
                            arguments |-> [kind |-> "object", valid |-> TRUE,
                                           value |-> "fragment-2"]]>>,
          type |-> "content_block_delta", finish_reason |-> Undefined]
    [] sym \in ArgumentSyms ->
         [content |-> <<>>, done |-> FALSE,
          tool_calls |-> <<[hasFunction |-> TRUE, name |-> "get_time",
                            arguments |-> ArgumentsOf(sym)]>>,
          type |-> "content_block_start", finish_reason |-> Undefined]
    [] sym \in DoneSyms ->
         [content |-> <<>>, done |-> TRUE,
          tool_calls |-> <<[hasFunction |-> TRUE, name |-> "get_time",
                            arguments |-> InvalidArguments]>>,
          type |-> "message_stop", finish_reason |-> "stop"]
    [] OTHER ->
         [content |-> <<>>, tool_calls |-> <<>>, done |-> TRUE,
          type |-> "message_stop", finish_reason |-> "stop"]

RECURSIVE TrimLeft(_)
TrimLeft(s) == IF s # <<>> /\ Head(s) \in Whitespace THEN TrimLeft(Tail(s)) ELSE s

RECURSIVE TrimRight(_)
TrimRight(s) == IF s # <<>> /\ Last(s) \in Whitespace THEN TrimRight(Front(s)) ELSE s

\* String.prototype.trim
Trim(s) == TrimRight(TrimLeft(s))

RECURSIVE Split(_)
\* String.prototype.split('\n'): never empty, the last element is what follows
\* the last newline
Split(s) ==
  IF \A i \in 1..Len(s) : s[i] # NL THEN <<s>>
  ELSE LET i == CHOOSE j \in 1..Len(s) : s[j] = NL /\ \A k \in 1..(j - 1) : s[k] # NL
       IN <<SubSeq(s, 1, i - 1)>> \o Split(SubSeq(s, i + 1, Len(s)))

\* JSON.parse: the object, or ok = FALSE where it throws a SyntaxError
ParseJSON(s) ==
  LET t == Trim(s) IN
  IF Len(t) = 2 /\ t[1] \in ChunkSyms \cup ArgumentSyms \cup DoneSyms /\ t[2] = CLOSE
  THEN [ok |-> TRUE, sym |-> t[1]]
  ELSE [ok |-> FALSE, sym |-> ""]

(***************************************************************************)
(* The generator object                                                    *)
(***************************************************************************)
StreamProviders == {"openai", "anthropic", "ollama", "ollama-generate"}

\* the generator createStreamGenerator returns: its body has not started
NewGenerator ==
  [pc |-> "start",          \* start | read (awaiting reader.read()) | yield | done
   at |-> "",               \* which yield it is suspended at
   cur |-> "",              \* the chunk being processed at that yield
   buffer |-> <<>>,
   lines |-> <<>>,          \* what is left of `lines` in the for loop
   accumulatedToolCalls |-> <<>>,
   accumulatedText |-> <<>>,
   out |-> <<>>,            \* the elements yielded so far
   released |-> 0,          \* number of reader.releaseLock() calls
   started |-> FALSE,       \* the body was entered
   exit |-> "",             \* how the body was left
   error |-> FALSE,         \* an exception reached the consumer
   readFailed |-> FALSE,    \* history: reader.read() rejected
   readAfterRelease |-> FALSE,
   ended |-> FALSE,         \* history: the sentinel, stop event or done chunk was decoded
   curLate |-> FALSE,       \* history: the line being processed follows that line
   lateYield |-> FALSE,     \* history: an element was yielded from such a line
   lateRead |-> FALSE]      \* history: reader.read() was called after that line

IdleGenerator == [NewGenerator EXCEPT !.pc = "done"]

\* releaseLock() after the loop instead of in a finally block
FinishWithoutFinally(g, how) ==
  [g EXCEPT !.pc = "done", !.at = "", !.cur = "", !.curLate = FALSE, !.exit = how,
            !.lines = <<>>, !.buffer = <<>>,
            !.released = IF how = "readerDone" THEN @ + 1 ELSE @]

\* leaving the try block, by any path: the finally block runs, and the
\* generator's locals are gone
Finish(g, how) ==
  [g EXCEPT !.pc = "done", !.at = "", !.cur = "", !.curLate = FALSE, !.exit = how,
            !.lines = <<>>, !.buffer = <<>>,
            !.released = @ + 1]

\* `await reader.read()`
IssueRead(g) ==
  [g EXCEPT !.pc = "read", !.at = "", !.cur = "", !.curLate = FALSE,
            !.readAfterRelease = @ \/ g.released > 0,
            !.lateRead = @ \/ g.ended]

Yield(g, element, at) ==
  [g EXCEPT !.pc = "yield", !.at = at, !.out = Append(@, element),
            !.lateYield = @ \/ g.curLate]

\* a text-bearing element: it has no functionCalls property
TextElement(text, finishReason) ==
  [text |-> text, functionCalls |-> <<>>, finishReason |-> finishReason]

\* the final element of the Ollama stream
ToolCallElement(calls) ==
  [text |-> <<>>,
   functionCalls |-> [i \in 1..Len(calls) |->
                        [name |-> calls[i].name, args |-> calls[i].arguments]],
   finishReason |-> "STOP"]

\* `buffer += decode(value); lines = buffer.split('\n'); buffer = lines.pop() || ''`
TakeLines(g, value) ==
  LET all == Split(g.buffer \o value) IN
  [g EXCEPT !.buffer = Last(all), !.lines = Front(all)]

\* the next iteration of `for (const line of lines)`
NextLine(g) == [g EXCEPT !.lines = Tail(@), !.cur = "", !.curLate = g.ended]

RECURSIVE ProcessLines(_, _)

\* no try/catch around JSON.parse: the SyntaxError leaves the generator
RethrowParseError(p, g) == Finish([g EXCEPT !.error = TRUE], "error")

\* the catch block around JSON.parse in the for loop: the line is skipped
CatchParseError(p, g) == ProcessLines(p, g)

(***************************************************************************)
(* OpenAIProvider.createStreamGenerator                                    *)
(***************************************************************************)
RECURSIVE openaiLines(_)
\* the for loop over `lines`, up to the next yield, return or read
openaiLines(g) ==
  IF g.lines = <<>> THEN IssueRead(g)
  ELSE LET trimmedLine == Trim(Head(g.lines))
           g1 == NextLine(g)
       IN
       IF trimmedLine = <<>> \/ Head(trimmedLine) # DATA THEN openaiLines(g1)
       ELSE LET data == Tail(trimmedLine) IN
            IF data = <<DONE>> THEN Finish([g1 EXCEPT !.ended = TRUE], "sentinel")
            ELSE LET parsed == ParseJSON(data) IN
                 IF ~parsed.ok THEN CatchParseError("openai", g1)
                 ELSE LET choice == Chunk(parsed.sym) IN
                      IF choice.content # <<>>
                      THEN Yield(g1, TextElement(choice.content, choice.finish_reason),
                                 "text")
                      ELSE openaiLines(g1)   \* tool-call deltas are skipped

(***************************************************************************)
(* AnthropicProvider.createStreamGenerator                                 *)
(***************************************************************************)
RECURSIVE anthropicLines(_)
anthropicLines(g) ==
  IF g.lines = <<>> THEN IssueRead(g)
  ELSE LET trimmedLine == Trim(Head(g.lines))
           g1 == NextLine(g)
       IN
       IF trimmedLine = <<>> \/ Head(trimmedLine) # DATA THEN anthropicLines(g1)
       ELSE LET data == Tail(trimmedLine) IN
            IF data = <<DONE>>
            THEN \* `break` leaves the for loop only: back to reader.read()
                 IssueRead([g1 EXCEPT !.lines = <<>>, !.ended = TRUE])
            ELSE LET parsed == ParseJSON(data) IN
                 IF ~parsed.ok THEN CatchParseError("anthropic", g1)
                 ELSE LET event == Chunk(parsed.sym) IN
                      IF event.type = "content_block_delta" /\ event.content # <<>>
                      THEN Yield(g1, TextElement(event.content, Undefined), "text")
                      ELSE IF event.type = "message_stop"
                      THEN Finish([g1 EXCEPT !.ended = TRUE], "sentinel")
                      ELSE anthropicLines(g1)

(***************************************************************************)
(* OllamaProvider.createStreamGenerator (the /api/chat provider)           *)
(***************************************************************************)
RECURSIVE AccumulateCalls(_, _)
\* the loop over chunk.message.tool_calls: the calls pushed, and whether
\* JSON.parse of a string `arguments` threw (what was pushed before stays)
AccumulateCalls(acc, toolCalls) ==
  IF toolCalls = <<>> THEN [calls |-> acc, threw |-> FALSE]
  ELSE LET toolCall == Head(toolCalls) IN
       IF ~toolCall.hasFunction THEN AccumulateCalls(acc, Tail(toolCalls))
       ELSE IF toolCall.arguments.kind = "string" /\ ~toolCall.arguments.valid
       THEN [calls |-> acc, threw |-> TRUE]
       ELSE LET args == IF toolCall.arguments.kind = "absent" THEN "{}"
                        ELSE toolCall.arguments.value
            IN AccumulateCalls(Append(acc, [name |-> toolCall.name, arguments |-> args]),
                               Tail(toolCalls))

RECURSIVE ollamaLines(_), ollamaAfterText(_)
\* the for loop over `lines`, up to the next yield or read
ollamaLines(g) ==
  IF g.lines = <<>> THEN IssueRead(g)
  ELSE LET trimmedLine == Trim(Head(g.lines))
           g1 == NextLine(g)
       IN
       IF trimmedLine = <<>> THEN ollamaLines(g1)
       ELSE LET parsed == ParseJSON(trimmedLine) IN
            IF ~parsed.ok THEN CatchParseError("ollama", g1)
            ELSE LET chunk == Chunk(parsed.sym)
                     g2 == [g1 EXCEPT !.cur = parsed.sym, !.ended = @ \/ chunk.done]
                 IN
                 IF chunk.content # <<>>
                 THEN Yield([g2 EXCEPT !.accumulatedText = @ \o chunk.content],
                            TextElement(chunk.content, Undefined), "text")
                 ELSE ollamaAfterText(g2)

\* the rest of the try block for chunk g.cur, after its text was yielded
ollamaAfterText(g) ==
  LET chunk == Chunk(g.cur)
      acc == AccumulateCalls(g.accumulatedToolCalls, chunk.tool_calls)
      g1 == [g EXCEPT !.accumulatedToolCalls = acc.calls]
  IN
  IF acc.threw THEN ollamaLines(g1)   \* catch: the done check is skipped too
  ELSE IF chunk.done /\ acc.calls # <<>>
  THEN Yield(g1, ToolCallElement(acc.calls), "final")
  ELSE ollamaLines(g1)

\* after the tail chunk's text: `if (chunk.done && accumulatedToolCalls.length > 0)`
ollamaTailAfterText(g) ==
  IF Chunk(g.cur).done /\ g.accumulatedToolCalls # <<>>
  THEN Yield(g, ToolCallElement(g.accumulatedToolCalls), "tailFinal")
  ELSE Finish(g, "readerDone")

\* after the while loop: "Process any remaining data in buffer"
ollamaTail(g) ==
  IF Trim(g.buffer) = <<>> THEN Finish(g, "readerDone")
  ELSE LET parsed == ParseJSON(Trim(g.buffer)) IN
       IF ~parsed.ok THEN Finish(g, "readerDone")   \* catch
       ELSE LET chunk == Chunk(parsed.sym)
                g1 == [g EXCEPT !.cur = parsed.sym, !.curLate = g.ended,
                                !.ended = @ \/ chunk.done]
            IN
            IF chunk.content # <<>>
            THEN Yield(g1, TextElement(chunk.content,
                                       IF chunk.done THEN "STOP" ELSE Undefined),
                       "tailText")
            ELSE ollamaTailAfterText(g1)

(***************************************************************************)
(* OllamaProvider.createStreamGenerator (the /api/generate provider)       *)
(***************************************************************************)
\* convertFromOllamaResponse
convertFromOllamaResponse(sym) ==
  TextElement(Chunk(sym).content, IF Chunk(sym).done THEN "STOP" ELSE "MAX_TOKENS")

RECURSIVE generateLines(_)
generateLines(g) ==
  IF g.lines = <<>> THEN IssueRead(g)
  ELSE LET parsed == ParseJSON(Head(g.lines))
           g1 == NextLine(g)
       IN
       IF ~parsed.ok THEN CatchParseError("ollama-generate", g1)
       ELSE Yield([g1 EXCEPT !.ended = @ \/ Chunk(parsed.sym).done],
                  convertFromOllamaResponse(parsed.sym), "text")

\* `lines = decode(value).split('\n').filter(line => line.trim())`: no carry-over
generateTakeLines(g, value) ==
  [g EXCEPT !.lines = SelectSeq(Split(value), LAMBDA line : Trim(line) # <<>>)]

(***************************************************************************)
(* The generator's steps, for every provider                               *)
(***************************************************************************)
\* the for loop of provider p
ProcessLines(p, g) ==
  CASE p = "openai" -> openaiLines(g)
    [] p = "anthropic" -> anthropicLines(g)
    [] p = "ollama" -> ollamaLines(g)
    [] OTHER -> generateLines(g)

\* the lines provider p takes from a network read
Batch(p, g, value) ==
  IF p = "ollama-generate" THEN generateTakeLines(g, value) ELSE TakeLines(g, value)

\* reader.read() resolved with {done: false, value}
OnRead(p, g, value) == ProcessLines(p, Batch(p, g, value))

\* reader.read() resolved with {done: true}: `break`, then what follows the loop
OnDone(p, g) ==
  IF p = "ollama" THEN ollamaTail(g) ELSE Finish(g, "readerDone")

\* reader.read() rejected: the exception leaves the try block
OnReadError(g) == Finish([g EXCEPT !.error = TRUE, !.readFailed = TRUE], "error")

\* next() on the generator: it runs from where it is suspended
Resume(p, g) ==
  IF g.pc = "start" THEN IssueRead([g EXCEPT !.started = TRUE])
  ELSE CASE g.at = "text" /\ p = "ollama" -> ollamaAfterText(g)
         [] g.at = "tailText" -> ollamaTailAfterText(g)
         [] g.at = "tailFinal" -> Finish(g, "readerDone")
         [] OTHER -> ProcessLines(p, g)

\* return() on the generator: a suspended body leaves through its finally block,
\* a body that never started does not run at all
Return(g) ==
  IF g.pc = "start" THEN [g EXCEPT !.pc = "done", !.exit = "return"]
  ELSE Finish(g, "return")

(***************************************************************************)
(* Response bodies                                                         *)
(***************************************************************************)
\* the number of lines of a response body
MaxLines == 3

\* an event-stream data line carrying the object that opens with sym
DataLine(sym) == <<DATA, sym, CLOSE>>

Sentinel == <<DATA, DONE>>

\* the lines of an event-stream body: data lines, the sentinel, a data line
\* whose JSON is truncated, a comment line
SSELines ==
  {DataLine(sym) : sym \in {"text:a", "text:b", "call:1", "done"}}
    \cup {Sentinel, <<DATA, "text:a">>, <<":">>}

\* the lines of an NDJSON body: one object per line, or a truncated object
NDJSONLines == {<<sym, CLOSE>> : sym \in ChunkSyms} \cup {<<"text:a">>}

LinesOf(p) == IF p \in {"openai", "anthropic"} THEN SSELines ELSE NDJSONLines

\* the bytes of a body: its lines, newlines between them and, when the last line
\* is terminated, after it
Body(lines, terminated) ==
  Flatten(Join(lines, <<NL>>)) \o (IF terminated THEN <<NL>> ELSE <<>>)

Bodies(p) ==
  {Body(lines, terminated) :
     lines \in UNION {[1..n -> LinesOf(p)] : n \in 0..MaxLines},
     terminated \in BOOLEAN}

(***************************************************************************)
(* Stream operations                                                       *)
(***************************************************************************)
\* the consumer pulls the next element
ConsumerNext ==
  /\ consumer = "pulling"
  /\ gen.pc \in {"start", "yield"}
  /\ gen' = Resume(provider, gen)
  /\ UNCHANGED <<provider, stream, wire, consumer>>
  /\ UNCHANGED <<registryVars, callVars, instanceVars, cliVars>>

\* the consumer stops early and discards the sequence (break in for await)
ConsumerReturn ==
  /\ consumer = "pulling"
  /\ gen.pc \in {"start", "yield"}
  /\ gen' = Return(gen)
  /\ consumer' = "discarded"
  /\ UNCHANGED <<provider, stream, wire>>
  /\ UNCHANGED <<registryVars, callVars, instanceVars, cliVars>>

\* the pending reader.read() resolves with the next n bytes of the body
ReadValue(n) ==
  /\ gen.pc = "read"
  /\ n \in 1..Len(wire)
  /\ gen' = OnRead(provider, gen, SubSeq(wire, 1, n))
  /\ wire' = SubSeq(wire, n + 1, Len(wire))
  /\ UNCHANGED <<provider, stream, consumer>>
  /\ UNCHANGED <<registryVars, callVars, instanceVars, cliVars>>

\* the pending reader.read() resolves with done
ReadDone ==
  /\ gen.pc = "read"
  /\ wire = <<>>
  /\ gen' = OnDone(provider, gen)
  /\ UNCHANGED <<provider, stream, wire, consumer>>
  /\ UNCHANGED <<registryVars, callVars, instanceVars, cliVars>>

\* the pending reader.read() rejects (the connection failed)
ReadError ==
  /\ gen.pc = "read"
  /\ gen' = OnReadError(gen)
  /\ UNCHANGED <<provider, stream, wire, consumer>>
  /\ UNCHANGED <<registryVars, callVars, instanceVars, cliVars>>

(***************************************************************************)
(* Canonical requests                                                      *)
(*                                                                         *)
(* A text is a sequence of characters.  A part is a text part, a           *)
(* functionCall part or a functionResponse part.                           *)
(***************************************************************************)
Abcd == <<"a", "b", "c", "d">>
Blank == <<" ">>
Ok == <<"o", "k">>

\* part.text
TextPart(text) ==
  [kind |-> "text", text |-> text, name |-> "", args |-> "", id |-> "",
   hasResponse |-> FALSE, output |-> <<>>]

\* part.functionCall = {name, args}
FunctionCallPart(name, args) ==
  [kind |-> "functionCall", text |-> <<>>, name |-> name, args |-> args, id |-> "",
   hasResponse |-> FALSE, output |-> <<>>]

\* part.functionResponse = {name, id?, response?}; a response is {output: string}
FunctionResponsePart(name, id, hasResponse, output) ==
  [kind |-> "functionResponse", text |-> <<>>, name |-> name, args |-> "", id |-> id,
   hasResponse |-> hasResponse, output |-> output]

\* the parts a content entry is made of
Parts ==
  {TextPart(Abcd), TextPart(Blank),
   FunctionCallPart("get_weather", "{city}"),
   FunctionResponsePart("get_weather", "", TRUE, Ok),
   FunctionResponsePart("get_time", "call_2", FALSE, <<>>)}

\* the most parts a request holds, over all its content entries
MaxParts == 3

\* the non-empty part lists of at most n parts
PartLists(n) == UNION {[1..k -> Parts] : k \in 1..n}

\* content.role: the model's entries are those that open with a functionCall
Entry(parts) ==
  [role |-> IF parts[1].kind = "functionCall" THEN "model" ELSE "user", parts |-> parts]

RECURSIVE ContentLists(_)
\* the lists of content entries that hold at most n parts in all
ContentLists(n) ==
  {<<>>} \cup
    UNION {{<<Entry(parts)>> \o rest : rest \in ContentLists(n - Len(parts))} :
             parts \in PartLists(n)}

\* request.systemInstruction.parts, joined (empty: no systemInstruction)
SystemInstructions == {<<>>, <<"s", "y">>}

\* request.config.systemInstruction (joined like systemInstruction) and the
\* function declarations of request.config.tools, flattened in order
Requests ==
  [contents : ContentLists(MaxParts), systemInstruction : SystemInstructions,
   configSystemInstruction : {<<>>}, tools : {<<>>}]

EmptyRequest ==
  [contents |-> <<>>, systemInstruction |-> <<>>, configSystemInstruction |-> <<>>,
   tools |-> <<>>]

\* content.role with an explicit role: absent, user, model, or another value
RoleNames == {Undefined, "user", "model", "tool"}

RoleEntry(role, parts) == [role |-> role, parts |-> parts]

TextPartLists(n) == UNION {[1..k -> {TextPart(Abcd), TextPart(Blank)}] : k \in 1..n}

RECURSIVE RoleContentLists(_)
\* the lists of text entries, of any role, that hold at most n parts in all
RoleContentLists(n) ==
  {<<>>} \cup
    UNION {{<<RoleEntry(role, parts)>> \o rest :
              role \in RoleNames, rest \in RoleContentLists(n - Len(parts))} :
             parts \in TextPartLists(n)}

\* func.parameters of a function declaration: absent, or a JSON schema, of which
\* required and additionalProperties may be absent
NoParameters ==
  [present |-> FALSE, type |-> Undefined, properties |-> Undefined,
   required |-> Undefined, additionalProperties |-> Undefined]

\* `{}`
EmptySchema == [NoParameters EXCEPT !.present = TRUE]

ParameterSchemas ==
  {[present |-> TRUE, type |-> "object", properties |-> "{city}", required |-> r,
    additionalProperties |-> a] : r \in {Undefined, "[city]"}, a \in {Undefined, "false"}}

FunctionDeclarations ==
  [name : {"get_weather", "get_time"}, description : {"describes"},
   parameters : ParameterSchemas \cup {NoParameters}]

\* the most function declarations of a request
MaxTools == 2

ToolDeclarationLists == UNION {[1..k -> FunctionDeclarations] : k \in 0..MaxTools}

\* requests of text entries of every role with system instructions, and
\* requests of one user entry with tool declarations
TranslateRequests ==
  [contents : RoleContentLists(MaxParts), systemInstruction : SystemInstructions,
   configSystemInstruction : {<<>>, <<"c", "f">>}, tools : {<<>>}]
    \cup [contents : {<<RoleEntry("user", <<TextPart(Abcd)>>)>>},
          systemInstruction : {<<>>}, configSystemInstruction : {<<>>},
          tools : ToolDeclarationLists]

\* String.prototype.trim() leaves something
TrimTruthy(text) == Trim(text) # <<>>

\* String(x) of an object that is no string: what Array.prototype.join makes of it
ObjectObject ==
  <<"[", "o", "b", "j", "e", "c", "t", " ", "O", "b", "j", "e", "c", "t", "]">>

\* JSON.stringify(functionResponse.response) of {output: 'ok'}, and of {}
StringifiedOk ==
  <<"{", "\"", "o", "u", "t", "p", "u", "t", "\"", ":", "\"", "o", "k", "\"", "}">>
StringifiedEmpty == <<"{", "}">>

JSONStringify(part) == IF part.hasResponse THEN StringifiedOk ELSE StringifiedEmpty

\* parts.filter(keep), in order
RECURSIVE FilterParts(_, _)
FilterParts(parts, kind) ==
  IF parts = <<>> THEN <<>>
  ELSE IF Head(parts).kind = kind THEN <<Head(parts)>> \o FilterParts(Tail(parts), kind)
  ELSE FilterParts(Tail(parts), kind)

\* parts.map(part => part.text || '').join('')
JoinedText(parts) == Flatten([i \in 1..Len(parts) |-> parts[i].text])

(***************************************************************************)
(* Request translation: a backend message is                               *)
(*   role, content (a string), isArray and blocks (Anthropic's array       *)
(*   content), tool_calls and name (Ollama)                                *)
(***************************************************************************)
Message(role, content) ==
  [role |-> role, content |-> content, isArray |-> FALSE, blocks |-> <<>>,
   tool_calls |-> <<>>, name |-> ""]

\* a loop body that sent the trimmed text: `content: textContent.trim()`
openaiEntryTrimmed(content) ==
  LET textContent == JoinedText(content.parts) IN
  IF TrimTruthy(textContent)
  THEN LET role == IF Falsy(content.role) THEN "user" ELSE content.role
       IN <<Message(IF role = "user" THEN "user" ELSE "assistant", Trim(textContent))>>
  ELSE <<>>

\* the body of the loop over request.contents of convertToOpenAIMessages
openaiEntry(content) ==
  LET textContent == JoinedText(content.parts) IN
  IF TrimTruthy(textContent)
  THEN LET role == IF Falsy(content.role) THEN "user" ELSE content.role
       IN <<Message(IF role = "user" THEN "user" ELSE "assistant", textContent)>>
  ELSE <<>>

\* Anthropic's content blocks of the parts: text and tool_result; other parts are skipped
RECURSIVE anthropicBlocks(_)
anthropicBlocks(parts) ==
  IF parts = <<>> THEN <<>>
  ELSE LET part == Head(parts)
           block ==
             IF part.kind = "text" /\ part.text # <<>>
             THEN <<[type |-> "text", text |-> part.text, tool_use_id |-> "",
                     content |-> <<>>]>>
             ELSE IF part.kind = "functionResponse"
             THEN <<[type |-> "tool_result", text |-> <<>>,
                     tool_use_id |-> IF part.id # "" THEN part.id ELSE part.name,
                     content |-> JSONStringify(part)]>>
             ELSE <<>>
       IN block \o anthropicBlocks(Tail(parts))

\* the body of the loop over request.contents of convertToAnthropicMessages
anthropicEntry(content) ==
  LET messageParts == anthropicBlocks(content.parts)
      role == IF content.role = "model" THEN "assistant" ELSE "user"
  IN
  IF messageParts = <<>> THEN <<>>
  ELSE IF Len(messageParts) = 1 /\ messageParts[1].type = "text"
  THEN <<Message(role, messageParts[1].text)>>
  ELSE <<[Message(role, <<>>) EXCEPT !.isArray = TRUE, !.blocks = messageParts]>>

\* the body of the loop over request.contents of convertToOllamaMessages
ollamaEntry(content) ==
  LET functionCallParts == FilterParts(content.parts, "functionCall")
      functionResponseParts == FilterParts(content.parts, "functionResponse")
      textContent == JoinedText(FilterParts(content.parts, "text"))
  IN
  IF functionCallParts # <<>>
  THEN <<[Message("assistant", textContent) EXCEPT
            !.tool_calls = [i \in 1..Len(functionCallParts) |->
                              [name |-> functionCallParts[i].name,
                               arguments |-> functionCallParts[i].args]]]>>
  ELSE IF functionResponseParts # <<>>
  THEN [i \in 1..Len(functionResponseParts) |->
          [Message("tool", IF functionResponseParts[i].hasResponse
                           THEN functionResponseParts[i].output
                           ELSE StringifiedEmpty)
             EXCEPT !.name = functionResponseParts[i].name]]
  ELSE IF TrimTruthy(textContent)
  THEN <<Message(IF content.role = "model" THEN "assistant" ELSE "user", textContent)>>
  ELSE <<>>

\* the messages of one content entry, per provider; the /api/generate provider
\* makes one prompt string of the request, kept as a single user message
EntryMessages(p, content) ==
  CASE p = "openai" -> openaiEntry(content)
    [] p = "anthropic" -> anthropicEntry(content)
    [] p = "ollama" -> ollamaEntry(content)
    [] OTHER -> <<>>

\* convertToOllamaPrompt: the texts of the entries, joined by newlines
convertToOllamaPrompt(req) ==
  Flatten(Join([i \in 1..Len(req.contents) |-> JoinedText(req.contents[i].parts)], <<NL>>))

\* convertToOpenAIMessages / convertToAnthropicMessages / convertToOllamaMessages
convertToMessages(p, req) ==
  LET system == IF p = "ollama" /\ TrimTruthy(req.systemInstruction)
                THEN <<Message("system", req.systemInstruction)>>
                ELSE <<>>
  IN
  IF p = "ollama-generate" THEN <<Message("user", convertToOllamaPrompt(req))>>
  ELSE system \o Flatten([i \in 1..Len(req.contents) |-> EntryMessages(p, req.contents[i])])

\* the `system` field of the request body (empty: the body has none)
sentSystem(p, req) ==
  IF p = "anthropic"
  THEN IF req.configSystemInstruction # <<>> THEN req.configSystemInstruction
       ELSE req.systemInstruction
  ELSE <<>>

\* a tool of the request body; Anthropic's has no type and calls the schema input_schema
BackendTool(type, name, description, parameters) ==
  [type |-> type, name |-> name, description |-> description, parameters |-> parameters]

\* the push of convertToOpenAITools and of convertToOllamaTools
functionTool(func) ==
  BackendTool("function", func.name, func.description,
              IF func.parameters.present THEN func.parameters ELSE EmptySchema)

\* the push of convertToAnthropicTools
anthropicTool(func) ==
  BackendTool(Undefined, func.name, func.description,
              [present |-> TRUE, type |-> "object",
               properties |-> IF Falsy(func.parameters.properties) THEN "{}"
                              ELSE func.parameters.properties,
               required |-> IF Falsy(func.parameters.required) THEN "[]"
                            ELSE func.parameters.required,
               additionalProperties |-> Undefined])

\* the `tools` of the request body (empty: the body has none); the
\* /api/generate provider sends none
convertToTools(p, req) ==
  CASE p \in {"openai", "ollama"} -> [i \in 1..Len(req.tools) |-> functionTool(req.tools[i])]
    [] p = "anthropic" -> [i \in 1..Len(req.tools) |-> anthropicTool(req.tools[i])]
    [] OTHER -> <<>>

\* String(msg.content), as `join('')` takes it
ContentString(msg) ==
  IF msg.isArray THEN Flatten(Join([i \in 1..Len(msg.blocks) |-> ObjectObject], <<",">>))
  ELSE msg.content

\* messages.map(msg => msg.content).join('')
MessagesText(messages) == Flatten([i \in 1..Len(messages) |-> ContentString(messages[i])])

\* Math.ceil(n / d)
Ceil(n, d) == (n + d - 1) \div d

\* countTokens: Math.ceil(text.length / 4)
countTokensResult(p, req) == Ceil(Len(MessagesText(convertToMessages(p, req))), 4)

(***************************************************************************)
(* HTTP responses of a backend                                             *)
(***************************************************************************)
\* response.status and response.statusText
StatusText(status) ==
  CASE status = 200 -> "OK"
    [] status = 201 -> "Created"
    [] status = 404 -> "Not Found"
    [] OTHER -> "Internal Server Error"

Statuses == {200, 201, 404, 500}

\* response.ok
ResponseOkAlways(status) == TRUE

ResponseOk(status) == status \in 200..299

\* a tool call of a backend message: {function: {name, arguments}}
ToolCallWith(name, arguments) ==
  [hasFunction |-> TRUE, name |-> name, arguments |-> arguments]

ToolCall(name) == ToolCallWith(name, ValidArguments)

ToolCallLists == {<<>>, <<ToolCall("get_weather")>>, <<ToolCall("get_weather"), ToolCall("get_time")>>}

\* the most content blocks of an Anthropic response
MaxBlocks == 2

\* a content block of an Anthropic response; input is read of tool_use blocks
TextBlock(text) == [type |-> "text", text |-> text, name |-> "", input |-> NoArgs]

ToolUseBlock(name, input) == [type |-> "tool_use", text |-> <<>>, name |-> name, input |-> input]

\* content blocks of an Anthropic response: text, empty text, tool_use
ContentBlocks ==
  {TextBlock(Ok), TextBlock(<<>>), ToolUseBlock("get_weather", ObjectArguments)}

NoBody ==
  [content |-> <<>>, tool_calls |-> <<>>, function_call |-> FALSE,
   function_call_arguments |-> ValidArguments, blocks |-> <<>>,
   finish_reason |-> Undefined, done |-> TRUE, done_reason |-> Undefined]

\* what response.json() gives, with the fields the provider reads:
\*   content        choices[0].message.content | message.content | response
\*   tool_calls     choices[0].message.tool_calls | message.tool_calls
\*   function_call  choices[0].message.function_call (OpenAI's legacy format),
\*                  and its arguments
\*   blocks         content (Anthropic)
\*   finish_reason  choices[0].finish_reason | stop_reason (Anthropic)
\*   done           done (Ollama), with the done_reason Ollama sends beside it
BackendBodies(p) ==
  CASE p = "openai" ->
         {[NoBody EXCEPT !.content = c, !.tool_calls = t, !.function_call = f] :
            c \in {<<>>, Ok}, t \in ToolCallLists, f \in BOOLEAN}
    [] p = "anthropic" ->
         {[NoBody EXCEPT !.blocks = b] : b \in UNION {[1..k -> ContentBlocks] : k \in 0..MaxBlocks}}
    [] p = "ollama" ->
         {[NoBody EXCEPT !.content = c, !.tool_calls = t] : c \in {<<>>, Ok}, t \in ToolCallLists}
    [] OTHER -> {[NoBody EXCEPT !.content = c] : c \in {<<>>, Ok}}

\* the responses fetch may resolve with; response.body is null when hasBody is false
HttpResponses(p) ==
  {[status |-> 200, hasBody |-> TRUE, json |-> b] : b \in BackendBodies(p)}
    \cup {[status |-> s, hasBody |-> h, json |-> NoBody] : s \in Statuses, h \in BOOLEAN}

(***************************************************************************)
(* Response translation: the canonical response                            *)
(***************************************************************************)
TextResponsePart(text) == [kind |-> "text", text |-> text, name |-> "", args |-> ""]

CallResponsePart(name, args) == [kind |-> "functionCall", text |-> <<>>, name |-> name, args |-> args]

\* {name, args} of the functionCall parts: parts.filter(p => p.functionCall).map(p => p.functionCall)
RECURSIVE FunctionCallsOf(_)
FunctionCallsOf(parts) ==
  IF parts = <<>> THEN <<>>
  ELSE IF Head(parts).kind = "functionCall"
  THEN <<[name |-> Head(parts).name, args |-> Head(parts).args]>> \o FunctionCallsOf(Tail(parts))
  ELSE FunctionCallsOf(Tail(parts))

\* the canonical response; hasText and hasFunctionCalls say whether the object
\* has a `text` and a `functionCalls` property at all
Response(parts, hasText, text, hasFunctionCalls, functionCalls) ==
  [parts |-> parts, hasText |-> hasText, text |-> text,
   hasFunctionCalls |-> hasFunctionCalls, functionCalls |-> functionCalls,
   finishReason |-> Undefined]   \* candidates[0].finishReason, set by the converters

NoResponse == Response(<<>>, FALSE, <<>>, FALSE, <<>>)

\* the args of a functionCall, or ok = FALSE where JSON.parse throws:
\* OpenAI's `JSON.parse(arguments || '{}')`; String(object) is no JSON
openaiArguments(a) ==
  IF a.kind = "absent" \/ a.value = "" THEN [ok |-> TRUE, value |-> "{}"]
  ELSE IF a.kind = "string" THEN [ok |-> a.valid, value |-> a.value]
  ELSE [ok |-> FALSE, value |-> ""]

\* Ollama's `typeof arguments === 'string' ? JSON.parse(arguments) : arguments || {}`
ollamaArguments(a) ==
  IF a.kind = "string" THEN [ok |-> a.valid, value |-> a.value]
  ELSE IF a.kind = "absent" THEN [ok |-> TRUE, value |-> "{}"]
  ELSE [ok |-> TRUE, value |-> a.value]

\* Anthropic's `contentBlock.input || {}`
anthropicInput(a) ==
  IF a.kind = "absent" \/ a.value = "" THEN "{}" ELSE a.value

decodeArguments(p, a) == IF p = "openai" THEN openaiArguments(a) ELSE ollamaArguments(a)

\* the loop over message.tool_calls throws
ToolCallsThrow(p, toolCalls) ==
  \E i \in 1..Len(toolCalls) :
    toolCalls[i].hasFunction /\ ~decodeArguments(p, toolCalls[i].arguments).ok

\* the parts pushed for message.tool_calls
RECURSIVE ToolCallParts(_, _)
ToolCallParts(p, toolCalls) ==
  IF toolCalls = <<>> THEN <<>>
  ELSE (IF Head(toolCalls).hasFunction
        THEN <<CallResponsePart(Head(toolCalls).name,
                                decodeArguments(p, Head(toolCalls).arguments).value)>>
        ELSE <<>>) \o ToolCallParts(p, Tail(toolCalls))

\* `x || 'STOP'`
OrStop(reason) == IF Falsy(reason) THEN "STOP" ELSE reason

convertFromOpenAIResponse(json) ==
  LET text == json.content
      parts == (IF text # <<>> THEN <<TextResponsePart(text)>> ELSE <<>>)
                 \o ToolCallParts("openai", json.tool_calls)
                 \o (IF json.function_call
                     THEN <<CallResponsePart("legacy_call",
                              openaiArguments(json.function_call_arguments).value)>>
                     ELSE <<>>)
  IN [Response(parts, TRUE, text, TRUE, FunctionCallsOf(parts))
        EXCEPT !.finishReason = OrStop(json.finish_reason)]

RECURSIVE anthropicParts(_)
anthropicParts(blocks) ==
  IF blocks = <<>> THEN <<>>
  ELSE LET contentBlock == Head(blocks) IN
       (IF contentBlock.type = "text" /\ contentBlock.text # <<>>
        THEN <<TextResponsePart(contentBlock.text)>>
        ELSE IF contentBlock.type = "tool_use"
        THEN <<CallResponsePart(contentBlock.name, anthropicInput(contentBlock.input))>>
        ELSE <<>>) \o anthropicParts(Tail(blocks))

convertFromAnthropicResponse(json) ==
  LET parts == anthropicParts(json.blocks)
      functionCalls == FunctionCallsOf(parts)
  IN [Response(parts, TRUE, JoinedText(parts), functionCalls # <<>>, functionCalls)
        EXCEPT !.finishReason = OrStop(json.finish_reason)]

convertFromOllamaChatResponse(json) ==
  LET text == json.content
      parts == (IF text # <<>> THEN <<TextResponsePart(text)>> ELSE <<>>)
                 \o ToolCallParts("ollama", json.tool_calls)
  IN [Response(parts, TRUE, text, TRUE, FunctionCallsOf(parts))
        EXCEPT !.finishReason = IF json.done THEN "STOP" ELSE "STOP"]

\* convertFromOllamaResponse of the /api/generate provider: candidates only
convertFromGenerateResponse(json) ==
  [Response(<<TextResponsePart(json.content)>>, FALSE, <<>>, FALSE, <<>>)
     EXCEPT !.finishReason = IF json.done THEN "STOP" ELSE "MAX_TOKENS"]

convertFromResponse(p, json) ==
  CASE p = "openai" -> convertFromOpenAIResponse(json)
    [] p = "anthropic" -> convertFromAnthropicResponse(json)
    [] p = "ollama" -> convertFromOllamaChatResponse(json)
    [] OTHER -> convertFromGenerateResponse(json)

\* the conversion throws the SyntaxError of JSON.parse
convertThrows(p, json) ==
  CASE p = "openai" ->
         \/ ToolCallsThrow(p, json.tool_calls)
         \/ json.function_call /\ ~openaiArguments(json.function_call_arguments).ok
    [] p = "ollama" -> ToolCallsThrow(p, json.tool_calls)
    [] OTHER -> FALSE

(***************************************************************************)
(* Provider method calls                                                   *)
(***************************************************************************)
NoCall ==
  [name |-> "none", fetches |-> 0, status |-> 0, threw |-> FALSE, error |-> <<>>,
   reader |-> FALSE, returned |-> "nothing", messages |-> <<>>, response |-> NoResponse,
   totalTokens |-> 0, embeddings |-> <<>>, cls |-> "", config |-> NoConfig,
   valid |-> FALSE,
   json |-> NoBody,          \* history: what response.json() resolved with
   system |-> <<>>, tools |-> <<>>]   \* the system and tools of the request body

\* the prefix of the message of the error thrown on a response that is not ok
ApiName(p) ==
  CASE p = "openai" -> "OpenAI"
    [] p = "anthropic" -> "Anthropic"
    [] OTHER -> "Ollama"

\* `${api} API error: ${response.status} ${response.statusText}`; the /api/chat
\* provider appends ` - ${body}`, the text of the response (here empty)
ApiError(p, what, status) ==
  <<ApiName(p), what, ToString(status), " ", StatusText(status)>>
    \o (IF p = "ollama" /\ what = " API error: " THEN <<" - ", "">> ELSE <<>>)

\* the call after `await fetch(...)` resolved with a response that is not ok
ThrowApiError(p, name, what, status, messages) ==
  [NoCall EXCEPT !.name = name, !.fetches = 1, !.status = status, !.threw = TRUE,
                 !.error = ApiError(p, what, status), !.messages = messages]

generateContentResult(p, req, resp) ==
  LET messages == convertToMessages(p, req)
      c ==
        IF ~ResponseOk(resp.status)
        THEN ThrowApiError(p, "generateContent", " API error: ", resp.status, messages)
        ELSE IF convertThrows(p, resp.json)
        THEN [NoCall EXCEPT !.name = "generateContent", !.fetches = 1, !.status = resp.status,
                            !.messages = messages, !.threw = TRUE, !.error = <<"SyntaxError">>,
                            !.json = resp.json]
        ELSE [NoCall EXCEPT !.name = "generateContent", !.fetches = 1, !.status = resp.status,
                            !.messages = messages, !.returned = "response", !.json = resp.json,
                            !.response = convertFromResponse(p, resp.json)]
  IN [c EXCEPT !.system = sentSystem(p, req), !.tools = convertToTools(p, req)]

generateContentStreamResult(p, req, resp) ==
  LET messages == convertToMessages(p, req)
      c ==
        IF ~ResponseOk(resp.status)
        THEN ThrowApiError(p, "generateContentStream", " API error: ", resp.status, messages)
        ELSE IF ~resp.hasBody
        THEN [NoCall EXCEPT !.name = "generateContentStream", !.fetches = 1,
                            !.status = resp.status, !.messages = messages, !.threw = TRUE,
                            !.error = <<"Failed to get response reader">>]
        ELSE [NoCall EXCEPT !.name = "generateContentStream", !.fetches = 1,
                            !.status = resp.status, !.messages = messages, !.reader = TRUE,
                            !.returned = "generator"]
  IN [c EXCEPT !.system = sentSystem(p, req), !.tools = convertToTools(p, req)]

\* embedContent of a provider that calls an embeddings endpoint
fetchEmbedContent(p, req, resp) ==
  LET messages == convertToMessages(p, req) IN
  IF ~ResponseOk(resp.status)
  THEN ThrowApiError(p, "embedContent", " embeddings API error: ", resp.status, messages)
  ELSE [NoCall EXCEPT !.name = "embedContent", !.fetches = 1, !.status = resp.status,
                      !.messages = messages, !.returned = "embeddings",
                      !.embeddings = <<"values">>]

\* an embedContent of Anthropic that called an embeddings endpoint like the others
anthropicEmbedContentFetching(p, req, resp) == fetchEmbedContent(p, req, resp)

\* AnthropicProvider.embedContent
anthropicEmbedContent(p, req, resp) ==
  [NoCall EXCEPT !.name = "embedContent", !.returned = "embeddings"]

embedContentResult(p, req, resp) ==
  IF p = "anthropic" THEN anthropicEmbedContent(p, req, resp)
  ELSE fetchEmbedContent(p, req, resp)

\* The providers keep no state from one call to the next: a behaviour is one
\* method call on one request (call = NoCall until it is made).
generateContent(resp) ==
  /\ call = NoCall
  /\ call' = generateContentResult(provider, request, resp)
  /\ UNCHANGED <<provider, request, stream, wire, gen, consumer>>
  /\ UNCHANGED <<registryVars, instanceVars, cliVars>>

generateContentStream(resp) ==
  /\ call = NoCall
  /\ call' = generateContentStreamResult(provider, request, resp)
  /\ UNCHANGED <<provider, request, stream, wire, gen, consumer>>
  /\ UNCHANGED <<registryVars, instanceVars, cliVars>>

countTokens ==
  /\ call = NoCall
  /\ call' = [NoCall EXCEPT !.name = "countTokens", !.returned = "tokens",
                            !.totalTokens = countTokensResult(provider, request)]
  /\ UNCHANGED <<provider, request, stream, wire, gen, consumer>>
  /\ UNCHANGED <<registryVars, instanceVars, cliVars>>

embedContent(resp) ==
  /\ call = NoCall
  /\ call' = embedContentResult(provider, request, resp)
  /\ UNCHANGED <<provider, request, stream, wire, gen, consumer>>
  /\ UNCHANGED <<registryVars, instanceVars, cliVars>>

\* the classes whose validateConfig is called
ValidatedClasses == {"GoogleProvider", "OpenAIProvider", "AnthropicProvider", "OllamaProvider"}

ValidateConfig(cls, config) ==
  /\ call' = [NoCall EXCEPT !.name = "validateConfig", !.returned = "boolean",
                            !.cls = cls, !.config = config,
                            !.valid = validateConfig(cls, config)]
  /\ UNCHANGED <<provider, request, stream, wire, gen, consumer>>
  /\ UNCHANGED <<registryVars, instanceVars, cliVars>>

(***************************************************************************)
(* Streams open at once on one provider object                             *)
(***************************************************************************)
StreamIds == {"first", "second"}

\* a stream that generateContentStream has not returned yet
NoStream ==
  [stream |-> <<>>, wire |-> <<>>, gen |-> IdleGenerator, consumer |-> "idle",
   events |-> <<>>]     \* history: what happened to the generator, in order

NoStreams == [k \in StreamIds |-> NoStream]

\* locals kept on the provider object: a stream starts with what the generator
\* that ran last left in them
keptLocals(last) ==
  [NewGenerator EXCEPT !.buffer = last.buffer,
                       !.accumulatedToolCalls = last.accumulatedToolCalls,
                       !.accumulatedText = last.accumulatedText]

\* createStreamGenerator declares buffer, accumulatedToolCalls and
\* accumulatedText as locals: every call starts with new ones
freshLocals(last) == NewGenerator

Event(type, bytes) == [type |-> type, bytes |-> bytes]

\* generateContentStream returns the generator over a response body
openStream(k, body) ==
  /\ streams[k] = NoStream
  /\ streams' = [streams EXCEPT ![k] =
                   [stream |-> body, wire |-> body, consumer |-> "pulling", events |-> <<>>,
                    gen |-> freshLocals(streams[CHOOSE other \in StreamIds : other # k].gen)]]
  /\ UNCHANGED <<registryVars, streamVars, callVars, instance, cliVars>>

\* the operations of a stream, on the stream k
NextOf(k) ==
  /\ streams[k].consumer = "pulling"
  /\ streams[k].gen.pc \in {"start", "yield"}
  /\ streams' = [streams EXCEPT ![k].gen = Resume(provider, @),
                                ![k].events = Append(@, Event("next", <<>>))]
  /\ UNCHANGED <<registryVars, streamVars, callVars, instance, cliVars>>

ReturnOf(k) ==
  /\ streams[k].consumer = "pulling"
  /\ streams[k].gen.pc \in {"start", "yield"}
  /\ streams' = [streams EXCEPT ![k].gen = Return(@), ![k].consumer = "discarded",
                                ![k].events = Append(@, Event("return", <<>>))]
  /\ UNCHANGED <<registryVars, streamVars, callVars, instance, cliVars>>

ReadValueOf(k, n) ==
  /\ streams[k].gen.pc = "read"
  /\ n \in 1..Len(streams[k].wire)
  /\ LET bytes == SubSeq(streams[k].wire, 1, n) IN
     streams' = [streams EXCEPT ![k].gen = OnRead(provider, @, bytes),
                                ![k].wire = SubSeq(@, n + 1, Len(@)),
                                ![k].events = Append(@, Event("read", bytes))]
  /\ UNCHANGED <<registryVars, streamVars, callVars, instance, cliVars>>

ReadDoneOf(k) ==
  /\ streams[k].gen.pc = "read"
  /\ streams[k].wire = <<>>
  /\ streams' = [streams EXCEPT ![k].gen = OnDone(provider, @),
                                ![k].events = Append(@, Event("done", <<>>))]
  /\ UNCHANGED <<registryVars, streamVars, callVars, instance, cliVars>>

ReadErrorOf(k) ==
  /\ streams[k].gen.pc = "read"
  /\ streams' = [streams EXCEPT ![k].gen = OnReadError(@),
                                ![k].events = Append(@, Event("error", <<>>))]
  /\ UNCHANGED <<registryVars, streamVars, callVars, instance, cliVars>>

(***************************************************************************)
(* Model discovery (ModelDiscovery)                                        *)
(*                                                                         *)
(* The files under .gemini are fields of `disk`; the clock, the process    *)
(* environment and the outcome of the most recent operation are fields of  *)
(* `session`.  A model list is a sequence of model ids.                    *)
(***************************************************************************)
\* the provider names discoverModels has a case for
DiscoveryProviders == {"openai", "anthropic", "google", "ollama"}

\* CACHE_DURATION, 24 hours, in ticks of the clock
CACHE_DURATION == 2

\* the clock (Date.now()) runs from 0 to MaxTime
MaxTime == 3

\* the model ids, in the order Array.prototype.sort puts them
ModelIds == <<"claude-3", "dall-e", "gemini-pro", "gpt-3.5", "gpt-4", "llama3", "mistral">>

\* .sort() of a list of distinct ids
Sort(ids) == SelectSeq(ModelIds, LAMBDA id : id \in Range(ids))

\* the environment variable that holds the provider's API key
KeyVar(p) ==
  CASE p = "openai" -> "OPENAI_API_KEY"
    [] p = "anthropic" -> "ANTHROPIC_API_KEY"
    [] p = "google" -> "GEMINI_API_KEY"
    [] OTHER -> "OLLAMA_MODEL"

\* `${provider.toUpperCase()}_MODEL`
ModelVar(p) ==
  CASE p = "openai" -> "OPENAI_MODEL"
    [] p = "anthropic" -> "ANTHROPIC_MODEL"
    [] p = "google" -> "GOOGLE_MODEL"
    [] OTHER -> "OLLAMA_MODEL"

EnvVars == {KeyVar(p) : p \in DiscoveryProviders} \cup {ModelVar(p) : p \in DiscoveryProviders}

NoEnv == [v \in EnvVars |-> Undefined]

\* a ModelDiscoveryResult
DiscoveryResult(success, models, error, lastUpdated) ==
  [success |-> success, models |-> models, error |-> error, lastUpdated |-> lastUpdated]

\* the lastUpdated of what was never updated
Never == 0 - 1

\* null: no cached result
NoEntry == DiscoveryResult(FALSE, <<>>, "", Never)

NoCache == [p \in DiscoveryProviders |-> NoEntry]

\* what the models endpoint of a provider lists (data.data[].id, data.models[].name)
Listings(p) ==
  CASE p = "openai" -> {<<"gpt-4">>, <<"gpt-4", "dall-e", "gpt-3.5">>}
    [] p = "anthropic" -> {<<"claude-3">>, <<"gpt-4", "claude-3">>}
    [] p = "ollama" -> {<<"llama3">>, <<"mistral", "llama3">>}
    [] OTHER -> {<<>>}

\* the endpoint answers with a listing, answers with an error status, or the
\* fetch is rejected
ApiAnswers(p) ==
  {[kind |-> "ok", ids |-> l] : l \in Listings(p)}
    \cup {[kind |-> "status", ids |-> <<>>], [kind |-> "rejected", ids |-> <<>>]}

\* the filter on model.id: startsWith('gpt-') || startsWith('text-') ||
\* includes('embedding') for OpenAI, startsWith('claude-') for Anthropic
Listed(p, id) ==
  CASE p = "openai" -> id \in {"gpt-3.5", "gpt-4"}
    [] p = "anthropic" -> id = "claude-3"
    [] OTHER -> TRUE

\* the curated list of discoverGoogleModels (one id stands for the ten)
CuratedGoogleModels == <<"gemini-pro">>

\* the common models discoverOllamaModels returns when Ollama does not answer
\* (two ids stand for the nine), in the order of the code
CommonOllamaModels == <<"llama3", "mistral">>

\* discoverOpenAIModels, discoverAnthropicModels, discoverGoogleModels,
\* discoverOllamaModels: the models, or the error thrown; fetches counts the
\* HTTP requests issued
discoverProviderModels(p, apiKey, env, api) ==
  LET key == IF Falsy(apiKey) THEN env[KeyVar(p)] ELSE apiKey
      thrown(message, n) == [threw |-> TRUE, error |-> message, models |-> <<>>, fetches |-> n]
      found(models, n) == [threw |-> FALSE, error |-> "", models |-> models, fetches |-> n]
  IN
  IF p = "ollama"
  THEN IF api.kind = "ok" THEN found(Sort(api.ids), 1)
       ELSE found(CommonOllamaModels, 1)   \* catch (_error)
  ELSE IF Falsy(key) THEN thrown("API key not found", 0)
  ELSE IF p = "google" THEN found(Sort(CuratedGoogleModels), 0)
  ELSE IF api.kind = "rejected" THEN thrown("fetch failed", 1)
  ELSE IF api.kind = "status" THEN thrown("API error", 1)
  ELSE found(Sort(SelectSeq(api.ids, LAMBDA id : Listed(p, id))), 1)

\* getCachedModels: cache[provider] || null
getCachedModels(cache, p) == IF p \in DOMAIN cache THEN cache[p] ELSE NoEntry

\* a test that takes an entry of exactly 24 hours for a fresh one
CacheHitAtDuration(cached, now) ==
  cached # NoEntry /\ now - cached.lastUpdated <= CACHE_DURATION

\* the test of discoverModels: cached && Date.now() - cached.lastUpdated < CACHE_DURATION
CacheHit(cached, now) == cached # NoEntry /\ now - cached.lastUpdated < CACHE_DURATION

\* discoverModels: what it returns, the cache file afterwards, the requests
\* issued and the entry getCachedModels gave it
discoverModelsOutcome(cache, env, now, p, apiKey, api) ==
  LET cached == getCachedModels(cache, p)
      outcome(returned, after, n) ==
        [result |-> returned, cache |-> after, fetches |-> n, cached |-> cached]
  IN
  IF CacheHit(cached, now) THEN outcome(cached, cache, 0)
  ELSE IF p \notin DiscoveryProviders
  THEN outcome(DiscoveryResult(FALSE, <<>>, "Unknown provider", now), cache, 0)
  ELSE LET d == discoverProviderModels(p, apiKey, env, api) IN
       IF d.threw THEN outcome(DiscoveryResult(FALSE, <<>>, d.error, now), cache, d.fetches)
       ELSE LET found == DiscoveryResult(TRUE, d.models, "", now) IN
            \* cacheModels
            outcome(found, [cache EXCEPT ![p] = found], d.fetches)

\* shouldUpdateModels
shouldUpdateModels(cache, now, p) ==
  LET cached == getCachedModels(cache, p) IN
  IF cached = NoEntry THEN TRUE
  ELSE now - cached.lastUpdated > CACHE_DURATION

\* getUpdateStatus: needsUpdate of every provider
getUpdateStatus(cache, now) ==
  [p \in DiscoveryProviders |->
     LET cached == getCachedModels(cache, p) IN
     cached = NoEntry \/ now - cached.lastUpdated > CACHE_DURATION]

\* an entry of providers.json: config.providers[provider]
ConfigEntry(present, models, lastUpdated) ==
  [present |-> present, models |-> models, lastUpdated |-> lastUpdated]

NoConfigEntry == ConfigEntry(FALSE, <<>>, Never)

\* the models providers.json lists for a provider before any discovery
InitialModels(p) ==
  CASE p = "openai" -> <<"gpt-4">>
    [] p = "anthropic" -> <<"claude-3">>
    [] p = "google" -> <<"gemini-pro">>
    [] OTHER -> <<"llama3">>

\* .gemini/providers.json: absent, or the providers it holds
NoConfigFile == [exists |-> FALSE, providers |-> [p \in DiscoveryProviders |-> NoConfigEntry]]

DefaultConfigFile ==
  [exists |-> TRUE,
   providers |-> [p \in DiscoveryProviders |-> ConfigEntry(TRUE, InitialModels(p), Never)]]

\* a file written: its name and its content
FileWrite(file, content) == [file |-> file, content |-> content]

\* the second half of updateProviderConfig, after a successful discovery:
\* the value returned, providers.json and the backup file afterwards, and
\* the writes in their order
updateConfigOutcome(config, backup, now, p, newModels) ==
  LET kept(returned) ==
        [returned |-> returned, config |-> config, backup |-> backup, writes |-> <<>>]
  IN
  IF ~config.exists THEN kept(FALSE)
  ELSE IF p \notin DOMAIN config.providers \/ ~config.providers[p].present THEN kept(FALSE)
  ELSE LET oldModels == config.providers[p].models
           addedModels == SelectSeq(newModels, LAMBDA m : m \notin Range(oldModels))
           removedModels == SelectSeq(oldModels, LAMBDA m : m \notin Range(newModels))
       IN
       IF addedModels # <<>> \/ removedModels # <<>>
       THEN LET updated == [config EXCEPT !.providers[p].models = newModels,
                                          !.providers[p].lastUpdated = now]
            IN [returned |-> TRUE, config |-> updated, backup |-> updated,
                writes |-> <<FileWrite("providers.json.backup", updated),
                             FileWrite("providers.json", updated)>>]
       ELSE kept(TRUE)

\* the files and settings on disk before anything ran
\* no provider manager yet: `let providerManager` is undefined
NoManager ==
  [created |-> FALSE, settings |-> "null",
   providersConfig |-> NoConfigFile.providers, hasEnvFile |-> FALSE]

NoDisk ==
  [cache |-> NoCache,             \* .gemini/model-cache.json
   config |-> NoConfigFile,       \* .gemini/providers.json
   backup |-> NoConfigFile,       \* the providers.json.backup.<time> written last
   envFile |-> NoEnv,             \* the variables of the .env file
   hasEnvFile |-> FALSE,
   selectedType |-> Undefined,    \* settings: security.auth.selectedType
   settingsProviders |-> <<>>]    \* settings: providers

\* the outcome of the most recent operation
NoOut ==
  [op |-> "", provider |-> "", at |-> 0,
   cached |-> NoEntry,            \* what getCachedModels returned to discoverModels
   result |-> NoEntry,            \* what discoverModels returned
   fetches |-> 0,                 \* HTTP requests issued
   answer |-> "",                 \* how the endpoint answered, when it was asked
   returned |-> FALSE,            \* the boolean the operation returned
   before |-> NoConfigFile,       \* providers.json as updateProviderConfig read it
   writes |-> <<>>,               \* files written, in order
   status |-> [p \in DiscoveryProviders |-> FALSE],   \* needsUpdate per provider
   threw |-> "",                  \* the exception that left the handler
   messageType |-> "",            \* of the message the command returned
   refreshed |-> 0,               \* calls of refreshAuth
   refresh |-> "",                \* how refreshAuth settled, when it was called
   validation |-> "",             \* what validateAuthMethod would return
   selectedBefore |-> Undefined,  \* the selected auth type before the command
   current |-> "",                \* the provider of the current auth type
   envBefore |-> Undefined,       \* its model variable in process.env before
   fileBefore |-> Undefined,      \* its model variable in the .env file before
   discovered |-> FALSE]          \* ModelDiscovery.updateProviderConfig was called

NoSession ==
  [now |-> 0,                     \* Date.now()
   env |-> NoEnv,                 \* process.env
   target |-> "",                 \* the provider the operations are about
   manager |-> NoManager,         \* the module-level providerManager of the command file
   context |-> [settings |-> Undefined, config |-> FALSE],   \* context.services
   authType |-> Undefined,        \* getContentGeneratorConfig().authType
   out |-> NoOut]

\* the clock advances
Tick ==
  /\ session.now < MaxTime
  /\ session' = [session EXCEPT !.now = @ + 1]
  /\ UNCHANGED disk
  /\ UNCHANGED <<registryVars, streamVars, callVars, instanceVars>>

\* ModelDiscovery.discoverModels(provider, apiKey)
discoverModels(p, apiKey, api) ==
  LET o == discoverModelsOutcome(disk.cache, session.env, session.now, p, apiKey, api) IN
  /\ disk' = [disk EXCEPT !.cache = o.cache]
  /\ session' = [session EXCEPT !.out =
                   [NoOut EXCEPT !.op = "discoverModels", !.provider = p, !.at = session.now,
                                 !.cached = o.cached, !.result = o.result,
                                 !.fetches = o.fetches,
                                 !.answer = IF o.fetches > 0 THEN api.kind ELSE ""]]
  /\ UNCHANGED <<registryVars, streamVars, callVars, instanceVars>>

\* ModelDiscovery.updateProviderConfig(provider, apiKey)
updateProviderConfig(p, apiKey, api) ==
  LET o == discoverModelsOutcome(disk.cache, session.env, session.now, p, apiKey, api)
      u == IF o.result.success
           THEN updateConfigOutcome(disk.config, disk.backup, session.now, p, o.result.models)
           ELSE [returned |-> FALSE, config |-> disk.config, backup |-> disk.backup,
                 writes |-> <<>>]
  IN
  /\ disk' = [disk EXCEPT !.cache = o.cache, !.config = u.config, !.backup = u.backup]
  /\ session' = [session EXCEPT !.out =
                   [NoOut EXCEPT !.op = "updateProviderConfig", !.provider = p,
                                 !.at = session.now, !.cached = o.cached,
                                 !.result = o.result, !.fetches = o.fetches,
                                 !.answer = IF o.fetches > 0 THEN api.kind ELSE "",
                                 !.returned = u.returned, !.before = disk.config,
                                 !.writes = u.writes]]
  /\ UNCHANGED <<registryVars, streamVars, callVars, instanceVars>>

\* ModelDiscovery.shouldUpdateModels(provider)
shouldUpdate(p) ==
  /\ session' = [session EXCEPT !.out =
                   [NoOut EXCEPT !.op = "shouldUpdateModels", !.provider = p,
                                 !.at = session.now,
                                 !.returned = shouldUpdateModels(disk.cache, session.now, p)]]
  /\ UNCHANGED disk
  /\ UNCHANGED <<registryVars, streamVars, callVars, instanceVars>>

\* ModelDiscovery.getUpdateStatus()
updateStatus ==
  /\ session' = [session EXCEPT !.out =
                   [NoOut EXCEPT !.op = "getUpdateStatus", !.at = session.now,
                                 !.status = getUpdateStatus(disk.cache, session.now)]]
  /\ UNCHANGED disk
  /\ UNCHANGED <<registryVars, streamVars, callVars, instanceVars>>

(***************************************************************************)
(* The provider manager (ProviderManager) and the /provider commands       *)
(***************************************************************************)
\* config.authType of a provider of providers.json
AuthTypeOf(p) ==
  CASE p = "openai" -> "openai-api-key"
    [] p = "anthropic" -> "anthropic-api-key"
    [] p = "google" -> "gemini-api-key"
    [] OTHER -> "ollama-local"

\* config.requiredEnvVars of a provider (one variable each)
RequiredVar(p) == IF p = "ollama" THEN "OLLAMA_MODEL" ELSE KeyVar(p)

\* an entry of settings.merged.providers
SettingsProvider(name, apiKey, model) == [name |-> name, apiKey |-> apiKey, model |-> model]

\* loadProvidersConfig: providers.json, or the default configuration
loadProvidersConfig(d) ==
  IF d.config.exists THEN d.config.providers ELSE DefaultConfigFile.providers

\* new ProviderManager(settings)
newProviderManager(d, settings) ==
  [created |-> TRUE,
   settings |-> IF Falsy(settings) THEN "null" ELSE settings,
   providersConfig |-> loadProvidersConfig(d),
   hasEnvFile |-> d.hasEnvFile]          \* findEnvFile

\* providerEnvMap of syncSettingsToEnv
ProviderEnvVar(name) ==
  CASE name \in {"USE_OPENAI", "openai-api-key"} -> "OPENAI_API_KEY"
    [] name \in {"USE_ANTHROPIC", "anthropic-api-key"} -> "ANTHROPIC_API_KEY"
    [] name \in {"USE_GEMINI", "gemini-api-key"} -> "GEMINI_API_KEY"
    [] OTHER -> Undefined

RECURSIVE syncProviders(_, _)
\* the loop of syncSettingsToEnv over settings.merged.providers
syncProviders(env, entries) ==
  IF entries = <<>> THEN env
  ELSE LET entry == Head(entries)
           envVar == ProviderEnvVar(entry.name)
           keyed == IF ~Falsy(envVar) /\ ~Falsy(entry.apiKey)
                    THEN [env EXCEPT ![envVar] = entry.apiKey] ELSE env
           synced == IF ~Falsy(envVar) /\ ~Falsy(entry.apiKey) /\ ~Falsy(entry.model)
                     THEN IF entry.name = "USE_OPENAI"
                          THEN [keyed EXCEPT !["OPENAI_MODEL"] = entry.model]
                          ELSE IF entry.name = "USE_ANTHROPIC"
                          THEN [keyed EXCEPT !["ANTHROPIC_MODEL"] = entry.model]
                          ELSE keyed
                     ELSE keyed
       IN syncProviders(synced, Tail(entries))

\* syncSettingsToEnv
syncSettingsToEnv(env, manager, d) ==
  IF manager.settings = "null" THEN env ELSE syncProviders(env, d.settingsProviders)

\* getProviderManager(context): the session afterwards
getProviderManager(s, d) ==
  IF ~s.manager.created \/ s.manager.settings # s.context.settings
  THEN LET created == newProviderManager(d, s.context.settings) IN
       [s EXCEPT !.manager = created, !.env = syncSettingsToEnv(s.env, created, d)]
  ELSE s

\* getProviderConfig(provider) # null
hasProviderConfig(manager, name) ==
  name \in DOMAIN manager.providersConfig /\ manager.providersConfig[name].present

\* loadEnvFile
loadEnvFile(manager, d) == IF manager.hasEnvFile THEN d.envFile ELSE NoEnv

\* checkProviderSetup(provider).configured
configured(manager, d, name) ==
  hasProviderConfig(manager, name) /\ ~Falsy(loadEnvFile(manager, d)[RequiredVar(name)])

\* getCurrentProviderFromAuthType: the first provider with that auth type
\* ("" for null)
getCurrentProviderFromAuthType(manager, authType) ==
  LET found == SelectSeq(<<"openai", "anthropic", "google", "ollama">>,
                         LAMBDA p : hasProviderConfig(manager, p) /\ AuthTypeOf(p) = authType)
  IN IF found = <<>> THEN "" ELSE Head(found)

\* validateApiKeyFormat: 'sk-*' for OpenAI, 'sk-ant-*' for Anthropic
validateApiKeyFormat(name, apiKey) ==
  CASE name = "openai" -> apiKey \in {"sk-new", "sk-ant-new"}
    [] name = "anthropic" -> apiKey = "sk-ant-new"
    [] OTHER -> TRUE

\* saveProviderToSettings: the providers of the settings afterwards
saveProviderToSettings(entries, name, apiKey) ==
  LET saved == SettingsProvider(AuthTypeOf(name), apiKey, Head(InitialModels(name)))
      existing == {i \in 1..Len(entries) : entries[i].name = AuthTypeOf(name)}
  IN IF existing # {}
     THEN [entries EXCEPT ![CHOOSE i \in existing : \A j \in existing : i <= j] = saved]
     ELSE Append(entries, saved)

\* the record of a command: which, its argument, and what it found before it ran
CommandOut(op, arg) ==
  [NoOut EXCEPT !.op = op, !.provider = arg, !.at = session.now,
                !.selectedBefore = disk.selectedType]

\* the handler used the module-level providerManager while it was undefined
TypeError(out) == [out EXCEPT !.threw = "TypeError"]

\* the command returns a message of this type
messageOf(out, type) == [out EXCEPT !.messageType = type]

\* /provider list
providerList ==
  /\ session' = [getProviderManager(session, disk) EXCEPT
                   !.out = messageOf(CommandOut("list", ""), "info")]
  /\ UNCHANGED disk
  /\ UNCHANGED <<registryVars, streamVars, callVars, instanceVars>>

\* /provider status
providerStatus ==
  /\ session' = IF ~session.context.config
                THEN [session EXCEPT !.out = messageOf(CommandOut("status", ""), "error")]
                ELSE [getProviderManager(session, disk) EXCEPT
                        !.out = [messageOf(CommandOut("status", ""), "info") EXCEPT
                                   !.status = getUpdateStatus(disk.cache, session.now)]]
  /\ UNCHANGED disk
  /\ UNCHANGED <<registryVars, streamVars, callVars, instanceVars>>

\* the completion of switch, setup and discover
providerCompletion ==
  /\ session' = [getProviderManager(session, disk) EXCEPT
                   !.out = CommandOut("completion", "")]
  /\ UNCHANGED disk
  /\ UNCHANGED <<registryVars, streamVars, callVars, instanceVars>>

\* the completion of model
modelCompletion ==
  /\ session' = [session EXCEPT !.out =
                   IF ~session.context.config THEN CommandOut("modelCompletion", "")
                   ELSE IF ~session.manager.created
                   THEN TypeError(CommandOut("modelCompletion", ""))
                   ELSE CommandOut("modelCompletion", "")]
  /\ UNCHANGED disk
  /\ UNCHANGED <<registryVars, streamVars, callVars, instanceVars>>

\* /provider setup <provider> <api-key>
providerSetup(name, apiKey) ==
  LET s == getProviderManager(session, disk)
      out == CommandOut("setup", name)
      entries == saveProviderToSettings(disk.settingsProviders, name, apiKey)
      saved == [disk EXCEPT !.settingsProviders = entries]
  IN
  /\ UNCHANGED <<registryVars, streamVars, callVars, instanceVars>>
  /\ IF name = "" \/ ~hasProviderConfig(s.manager, name)
     THEN session' = [s EXCEPT !.out = messageOf(out, "error")] /\ UNCHANGED disk
     ELSE IF Falsy(apiKey)
     THEN /\ session' = [s EXCEPT !.out =
                           messageOf(out, IF \E i \in 1..Len(disk.settingsProviders) :
                                             /\ s.manager.settings # "null"
                                             /\ disk.settingsProviders[i].name = AuthTypeOf(name)
                                             /\ ~Falsy(disk.settingsProviders[i].apiKey)
                                        THEN "info" ELSE "error")]
          /\ UNCHANGED disk
     ELSE IF ~validateApiKeyFormat(name, apiKey)
     THEN session' = [s EXCEPT !.out = messageOf(out, "error")] /\ UNCHANGED disk
     ELSE IF s.manager.settings = "null"     \* 'Settings not available' is caught
     THEN session' = [s EXCEPT !.out = messageOf(out, "error")] /\ UNCHANGED disk
     ELSE /\ session' = [s EXCEPT !.env = syncSettingsToEnv(s.env, s.manager, saved),
                                  !.out = messageOf(out, "info")]
          /\ disk' = [saved EXCEPT !.selectedType = AuthTypeOf(name)]

\* a switch whose choice is persisted before refreshAuth is awaited
switchAttemptPersistingFirst(out, d, settings, authType, refresh) ==
  [out |-> messageOf([out EXCEPT !.refreshed = 1, !.refresh = refresh],
                   IF refresh = "resolved" THEN "info" ELSE "error"),
   disk |-> IF ~Falsy(settings) THEN [d EXCEPT !.selectedType = authType] ELSE d]

\* the try block of the switch command: refreshAuth, then settings.setValue
switchAttempt(out, d, settings, authType, refresh) ==
  IF refresh = "resolved"
  THEN [out |-> messageOf([out EXCEPT !.refreshed = 1, !.refresh = refresh], "info"),
        disk |-> IF ~Falsy(settings) THEN [d EXCEPT !.selectedType = authType] ELSE d]
  ELSE [out |-> messageOf([out EXCEPT !.refreshed = 1, !.refresh = refresh], "error"),
        disk |-> d]

\* /provider switch <provider>; validation is what validateAuthMethod returns
\* ("" for null), refresh how refreshAuth settles
providerSwitch(name, validation, refresh) ==
  LET s == getProviderManager(session, disk)
      out == [CommandOut("switch", name) EXCEPT !.validation = validation]
      synced == [s EXCEPT !.env = syncSettingsToEnv(s.env, s.manager, disk)]
      attempt == switchAttempt(out, disk, session.context.settings, AuthTypeOf(name), refresh)
  IN
  /\ UNCHANGED <<registryVars, streamVars, callVars, instanceVars>>
  /\ IF name = "" \/ ~hasProviderConfig(s.manager, name)
     THEN session' = [s EXCEPT !.out = messageOf(out, "error")] /\ UNCHANGED disk
     ELSE IF ~configured(s.manager, disk, name)
     THEN session' = [synced EXCEPT !.out = messageOf(out, "info")] /\ UNCHANGED disk
     ELSE IF validation # ""
     THEN session' = [synced EXCEPT !.out = messageOf(out, "error")] /\ UNCHANGED disk
     ELSE IF ~session.context.config
     THEN session' = [synced EXCEPT !.out = messageOf(out, "error")] /\ UNCHANGED disk
     ELSE session' = [synced EXCEPT !.out = attempt.out] /\ disk' = attempt.disk

\* ProviderManager.discoverModels(provider), after the setup check: the disk
\* and the record of the command afterwards
managerDiscover(out, d, env, now, name, api) ==
  LET o == discoverModelsOutcome(d.cache, env, now, name, Undefined, api)
      u == IF o.result.success
           THEN updateConfigOutcome(d.config, d.backup, now, name, o.result.models)
           ELSE [returned |-> FALSE, config |-> d.config, backup |-> d.backup,
                 writes |-> <<>>]
  IN [disk |-> [d EXCEPT !.cache = o.cache, !.config = u.config, !.backup = u.backup],
      out |-> [out EXCEPT !.cached = o.cached, !.result = o.result,
                          !.fetches = @ + o.fetches,
                          !.answer = IF o.fetches > 0 THEN api.kind ELSE "",
                          !.returned = u.returned, !.before = d.config,
                          !.writes = u.writes, !.discovered = TRUE]]

\* /provider discover <provider>
providerDiscover(name, api) ==
  LET out == CommandOut("discover", name)
      found == managerDiscover(out, disk, session.env, session.now, name, api)
  IN
  /\ UNCHANGED <<registryVars, streamVars, callVars, instanceVars>>
  /\ IF ~session.manager.created
     THEN session' = [session EXCEPT !.out = TypeError(out)] /\ UNCHANGED disk
     ELSE IF name = "" \/ ~hasProviderConfig(session.manager, name)
     THEN session' = [session EXCEPT !.out = messageOf(out, "error")] /\ UNCHANGED disk
     ELSE IF ~configured(session.manager, disk, name)
     THEN session' = [session EXCEPT !.out = messageOf(out, "error")] /\ UNCHANGED disk
     ELSE /\ disk' = found.disk
          /\ session' =
               [session EXCEPT
                  !.manager.providersConfig =
                     IF found.out.returned THEN loadProvidersConfig(found.disk) ELSE @,
                  !.out = messageOf(found.out, IF found.out.returned THEN "info" ELSE "error")]

\* how the endpoint of a provider answers a command: with its shortest
\* listing, or as ApiAnswers has it
CommandAnswer(name, kind) ==
  IF kind = "ok"
  THEN [kind |-> "ok",
        ids |-> CHOOSE l \in Listings(name) : Len(l) = 1 \/ Listings(name) = {l}]
  ELSE [kind |-> kind, ids |-> <<>>]

RECURSIVE updateEach(_, _, _, _, _)
\* the loop of the update command over the providers that need an update
updateEach(names, world, env, now, api) ==
  IF names = <<>> THEN world
  ELSE LET name == Head(names)
           found == managerDiscover(world.out, world.disk, env, now, name,
                                    CommandAnswer(name, api))
           next == IF ~configured(world.manager, world.disk, name) THEN world
                   ELSE [disk |-> found.disk, out |-> found.out,
                         manager |-> IF found.out.returned
                                     THEN [world.manager EXCEPT
                                             !.providersConfig = loadProvidersConfig(found.disk)]
                                     ELSE world.manager]
       IN updateEach(Tail(names), next, env, now, api)

\* /provider update; every endpoint answers in the same way
providerUpdate(api) ==
  LET out == CommandOut("update", "")
      status == getUpdateStatus(disk.cache, session.now)
      needing == SelectSeq(<<"openai", "anthropic", "google", "ollama">>,
                           LAMBDA p : status[p])
      done == updateEach(needing, [disk |-> disk, out |-> [out EXCEPT !.status = status],
                                   manager |-> session.manager],
                         session.env, session.now, api)
  IN
  /\ UNCHANGED <<registryVars, streamVars, callVars, instanceVars>>
  /\ IF ~session.manager.created
     THEN session' = [session EXCEPT !.out = TypeError(out)] /\ UNCHANGED disk
     ELSE /\ disk' = done.disk
          /\ session' = [session EXCEPT !.manager = done.manager,
                                        !.out = messageOf(done.out, "info")]

\* the models /api/tags of Ollama lists
InstalledModels == <<"llama3", "mistral">>

\* the model variable is set in process.env and, when the manager found a
\* .env file, in that file (the line KEY="value" is replaced or added)
setModel(s, d, var, modelName) ==
  [session |-> [s EXCEPT !.env[var] = modelName],
   disk |-> IF s.manager.hasEnvFile THEN [d EXCEPT !.envFile[var] = modelName] ELSE d]

\* /provider model <name>; tags is how /api/tags of Ollama answers, refresh how
\* refreshAuth settles
providerModel(modelName, tags, refresh) ==
  LET currentProvider == getCurrentProviderFromAuthType(session.manager, session.authType)
      var == ModelVar(currentProvider)
      out == [CommandOut("model", modelName) EXCEPT
                !.envBefore = IF currentProvider = "" THEN Undefined ELSE session.env[var],
                !.fileBefore = IF currentProvider = "" THEN Undefined ELSE disk.envFile[var],
                !.current = currentProvider]
      set == setModel(session, disk, var, modelName)
      refreshed == [out EXCEPT !.refreshed = 1, !.refresh = refresh]
  IN
  /\ UNCHANGED <<registryVars, streamVars, callVars, instanceVars>>
  /\ IF ~session.context.config
     THEN /\ session' = [session EXCEPT !.out = messageOf(CommandOut("model", modelName), "error")]
          /\ UNCHANGED disk
     ELSE IF ~session.manager.created
     THEN /\ session' = [session EXCEPT !.out = TypeError(CommandOut("model", modelName))]
          /\ UNCHANGED disk
     ELSE IF currentProvider = ""
     THEN session' = [session EXCEPT !.out = messageOf(out, "error")] /\ UNCHANGED disk
     ELSE IF modelName = ""          \* the list of models
     THEN /\ session' = [session EXCEPT !.out =
                           IF currentProvider = "ollama"
                           THEN messageOf([out EXCEPT !.fetches = 1],
                                        IF tags = "ok" THEN "info" ELSE "error")
                           ELSE messageOf(out, "info")]
          /\ UNCHANGED disk
     ELSE IF currentProvider = "ollama"
     THEN IF tags # "ok" \/ modelName \notin Range(InstalledModels)
          THEN /\ session' = [session EXCEPT !.out = messageOf([out EXCEPT !.fetches = 1], "error")]
               /\ UNCHANGED disk
          ELSE /\ session' = [set.session EXCEPT !.out =
                                messageOf([refreshed EXCEPT !.fetches = 1],
                                        IF refresh = "resolved" THEN "info" ELSE "error")]
               /\ disk' = set.disk
     ELSE IF modelName \notin Range(session.manager.providersConfig[currentProvider].models)
     THEN session' = [session EXCEPT !.out = messageOf(out, "error")] /\ UNCHANGED disk
     ELSE /\ session' = [set.session EXCEPT !.out =
                           IF refresh = "resolved" THEN messageOf(refreshed, "info")
                           ELSE [refreshed EXCEPT !.threw = "refreshAuth"]]
          /\ disk' = set.disk

(***************************************************************************)
(* Specifications                                                          *)
(***************************************************************************)
ConstructedLastRegistered ==
  [name \in ProviderNames |->
     IF MapHas(ConstructedRegistry, name) THEN MapGet(ConstructedRegistry, name) ELSE ""]

RegistryInit ==
  /\ providers = ConstructedRegistry
  /\ lastRegistered = ConstructedLastRegistered
  /\ result = NoResult
  /\ provider = "openai"
  /\ stream = <<>>
  /\ wire = <<>>
  /\ gen = IdleGenerator
  /\ consumer = "idle"
  /\ request = EmptyRequest
  /\ call = NoCall
  /\ instance = NoInstance
  /\ streams = NoStreams
  /\ disk = NoDisk
  /\ session = NoSession

RegistryNext ==
  \/ \E name \in RegisterNames, providerClass \in RegisterClasses :
       register(name, providerClass)
  \/ \E config \in Configs : createProvider(config)

RegistrySpec == RegistryInit /\ [][RegistryNext]_vars

StreamInit ==
  /\ providers = ConstructedRegistry
  /\ lastRegistered = ConstructedLastRegistered
  /\ result = NoResult
  /\ provider \in StreamProviders
  /\ stream \in Bodies(provider)
  /\ wire = stream
  /\ gen = NewGenerator
  /\ consumer = "pulling"
  /\ request = EmptyRequest
  /\ call = NoCall
  /\ instance = NoInstance
  /\ streams = NoStreams
  /\ disk = NoDisk
  /\ session = NoSession

StreamNext ==
  \/ ConsumerNext
  \/ ConsumerReturn
  \/ \E n \in 1..Len(wire) : ReadValue(n)
  \/ ReadDone
  \/ ReadError

StreamSpec == StreamInit /\ [][StreamNext]_vars

ProviderInit ==
  /\ providers = ConstructedRegistry
  /\ lastRegistered = ConstructedLastRegistered
  /\ result = NoResult
  /\ provider \in StreamProviders
  /\ stream = <<>>
  /\ wire = <<>>
  /\ gen = IdleGenerator
  /\ consumer = "idle"
  /\ request \in Requests
  /\ call = NoCall
  /\ instance = NoInstance
  /\ streams = NoStreams
  /\ disk = NoDisk
  /\ session = NoSession

ProviderNext ==
  \/ \E resp \in HttpResponses(provider) : generateContent(resp)
  \/ \E resp \in HttpResponses(provider) : generateContentStream(resp)
  \/ countTokens
  \/ \E resp \in HttpResponses(provider) : embedContent(resp)

ProviderSpec == ProviderInit /\ [][ProviderNext]_vars

ConfigInit ==
  /\ providers = ConstructedRegistry
  /\ lastRegistered = ConstructedLastRegistered
  /\ result = NoResult
  /\ provider = "openai"
  /\ stream = <<>>
  /\ wire = <<>>
  /\ gen = IdleGenerator
  /\ consumer = "idle"
  /\ request = EmptyRequest
  /\ call = NoCall
  /\ instance = NoInstance
  /\ streams = NoStreams
  /\ disk = NoDisk
  /\ session = NoSession

ConfigNext == \E cls \in ValidatedClasses, config \in Configs : ValidateConfig(cls, config)

ConfigSpec == ConfigInit /\ [][ConfigNext]_vars

(***************************************************************************)
(* TranslateSpec: requests of every role, with system instructions and     *)
(* tool declarations, sent to a backend that echoes the text it is sent    *)
(***************************************************************************)
\* the text of a backend message: its string content, or its text blocks
MessageBody(msg) ==
  IF msg.isArray
  THEN Flatten([i \in 1..Len(msg.blocks) |-> msg.blocks[i].text])
  ELSE msg.content

\* the response of a stub backend whose answer is the text of the messages
EchoBody(p, messages) ==
  LET text == Flatten([i \in 1..Len(messages) |-> MessageBody(messages[i])]) IN
  IF p = "anthropic" THEN [NoBody EXCEPT !.blocks = <<TextBlock(text)>>]
  ELSE [NoBody EXCEPT !.content = text]

EchoResponse(p, req) ==
  [status |-> 200, hasBody |-> TRUE, json |-> EchoBody(p, convertToMessages(p, req))]

TranslateInit ==
  /\ providers = ConstructedRegistry
  /\ lastRegistered = ConstructedLastRegistered
  /\ result = NoResult
  /\ provider \in StreamProviders
  /\ stream = <<>>
  /\ wire = <<>>
  /\ gen = IdleGenerator
  /\ consumer = "idle"
  /\ request \in TranslateRequests
  /\ call = NoCall
  /\ instance = NoInstance
  /\ streams = NoStreams
  /\ disk = NoDisk
  /\ session = NoSession

TranslateNext ==
  \/ generateContent(EchoResponse(provider, request))
  \/ \E status \in {404, 500} :
       generateContent([status |-> status, hasBody |-> FALSE, json |-> NoBody])

TranslateSpec == TranslateInit /\ [][TranslateNext]_vars

(***************************************************************************)
(* DecodeSpec: responses and streams whose tool calls carry every kind of  *)
(* arguments, and every finish indicator                                   *)
(***************************************************************************)
\* the most tool calls of a backend message
MaxCalls == 2

\* function.arguments as a backend may send it; OpenAI sends strings only
ArgumentVariants(p) ==
  {NoArgs, EmptyArguments, ValidArguments, InvalidArguments}
    \cup (IF p = "ollama" THEN {ObjectArguments} ELSE {})

DecodeToolCalls(p) ==
  UNION {[1..k -> {ToolCallWith("get_time", a) : a \in ArgumentVariants(p)}] :
           k \in 0..MaxCalls}

\* choices[0].finish_reason, stop_reason, done_reason
FinishReasons(p) ==
  CASE p = "openai" -> {Undefined, "stop", "length"}
    [] p = "anthropic" -> {Undefined, "end_turn", "max_tokens"}
    [] OTHER -> {Undefined, "stop", "length"}

DecodeBlocks ==
  {TextBlock(Ok), ToolUseBlock("get_time", NoArgs), ToolUseBlock("get_time", ObjectArguments)}

DecodeBodies(p) ==
  CASE p = "openai" ->
         {[NoBody EXCEPT !.tool_calls = t, !.function_call = f[1],
                         !.function_call_arguments = f[2], !.finish_reason = r] :
            t \in DecodeToolCalls(p),
            f \in {<<FALSE, ValidArguments>>} \cup ({TRUE} \X ArgumentVariants(p)),
            r \in FinishReasons(p)}
    [] p = "anthropic" ->
         {[NoBody EXCEPT !.blocks = b, !.finish_reason = r] :
            b \in UNION {[1..k -> DecodeBlocks] : k \in 0..MaxBlocks},
            r \in FinishReasons(p)}
    [] p = "ollama" ->
         {[NoBody EXCEPT !.tool_calls = t, !.done = d, !.done_reason = r] :
            t \in DecodeToolCalls(p), d \in BOOLEAN, r \in FinishReasons(p)}
    [] OTHER ->
         {[NoBody EXCEPT !.content = Ok, !.done = d, !.done_reason = r] :
            d \in BOOLEAN, r \in FinishReasons(p)}

DecodeResponses(p) ==
  {[status |-> 200, hasBody |-> TRUE, json |-> b] : b \in DecodeBodies(p)}
    \cup {[status |-> 500, hasBody |-> FALSE, json |-> NoBody]}

\* the chunks of a streamed response that carries tool calls
DecodeSyms == {"call:1", "done"} \cup ArgumentSyms \cup DoneSyms

DecodeLines(p) ==
  IF p \in {"openai", "anthropic"}
  THEN {DataLine(sym) : sym \in DecodeSyms} \cup {Sentinel}
  ELSE {<<sym, CLOSE>> : sym \in DecodeSyms}

DecodeStreams(p) ==
  {Body(lines, terminated) :
     lines \in UNION {[1..n -> DecodeLines(p)] : n \in 1..MaxLines},
     terminated \in BOOLEAN}

\* a behaviour is one generateContent call, or one stream that is consumed
DecodeInit ==
  /\ providers = ConstructedRegistry
  /\ lastRegistered = ConstructedLastRegistered
  /\ result = NoResult
  /\ provider \in StreamProviders
  /\ request = EmptyRequest
  /\ call = NoCall
  /\ instance = NoInstance
  /\ streams = NoStreams
  /\ disk = NoDisk
  /\ session = NoSession
  /\ \/ /\ stream \in DecodeStreams(provider)
        /\ wire = stream
        /\ gen = NewGenerator
        /\ consumer = "pulling"
     \/ /\ stream = <<>>
        /\ wire = <<>>
        /\ gen = IdleGenerator
        /\ consumer = "idle"

DecodeNext ==
  \/ ConsumerNext
  \/ ConsumerReturn
  \/ \E n \in 1..Len(wire) : ReadValue(n)
  \/ ReadDone
  \/ ReadError
  \/ consumer = "idle" /\ \E resp \in DecodeResponses(provider) : generateContent(resp)

DecodeSpec == DecodeInit /\ [][DecodeNext]_vars

(***************************************************************************)
(* InterleaveSpec: two streams and a generateContent call on one provider  *)
(* object, their steps interleaved in every order                          *)
(***************************************************************************)
\* a one-line body, and a two-line body that ends the stream
InterleaveBodies(p) ==
  IF p \in {"openai", "anthropic"}
  THEN {Body(<<DataLine("text:a")>>, TRUE), Body(<<DataLine("text:b"), Sentinel>>, TRUE)}
  ELSE {Body(<<<<"text:a", CLOSE>>>>, TRUE),
        Body(<<<<"call:1", CLOSE>>, <<"done", CLOSE>>>>, TRUE)}

ProviderClass(p) ==
  CASE p = "openai" -> "OpenAIProvider"
    [] p = "anthropic" -> "AnthropicProvider"
    [] OTHER -> "OllamaProvider"

InterleaveInit ==
  /\ providers = ConstructedRegistry
  /\ lastRegistered = ConstructedLastRegistered
  /\ result = NoResult
  /\ provider \in {"openai", "ollama"}
  /\ stream = <<>>
  /\ wire = <<>>
  /\ gen = IdleGenerator
  /\ consumer = "idle"
  /\ request = EmptyRequest
  /\ call = NoCall
  /\ instance = construct(ProviderClass(provider),
                          [provider |-> provider, apiKey |-> "test-key", model |-> "gpt-4"])
  /\ streams = NoStreams
  /\ disk = NoDisk
  /\ session = NoSession

InterleaveNext ==
  \/ \E k \in StreamIds, body \in InterleaveBodies(provider) : openStream(k, body)
  \/ \E k \in StreamIds : NextOf(k)
  \/ \E k \in StreamIds : ReturnOf(k)
  \/ \E k \in StreamIds : \E n \in 1..Len(streams[k].wire) : ReadValueOf(k, n)
  \/ \E k \in StreamIds : ReadDoneOf(k)
  \/ \E k \in StreamIds : ReadErrorOf(k)
  \/ generateContent(EchoResponse(provider, request))

InterleaveSpec == InterleaveInit /\ [][InterleaveNext]_vars

(***************************************************************************)
(* CreateSpec: a provider is created from a configuration, then one of its *)
(* methods is called                                                       *)
(***************************************************************************)
CreateInit ==
  /\ providers = ConstructedRegistry
  /\ lastRegistered = ConstructedLastRegistered
  /\ result = NoResult
  /\ provider \in StreamProviders
  /\ stream = <<>>
  /\ wire = <<>>
  /\ gen = IdleGenerator
  /\ consumer = "idle"
  /\ request = EmptyRequest
  /\ call = NoCall
  /\ instance = NoInstance
  /\ streams = NoStreams
  /\ disk = NoDisk
  /\ session = NoSession

\* the methods are those of the object that was created
Created == result.kind = "provider" /\ instance.cls = ProviderClass(provider)

CreateNext ==
  \/ result = NoResult /\ \E config \in Configs : createProvider(config)
  \/ result = NoResult /\ \E config \in Configs : createContentGenerator(config)
  \/ Created /\ \E resp \in HttpResponses(provider) : generateContent(resp)
  \/ Created /\ \E resp \in HttpResponses(provider) : generateContentStream(resp)
  \/ Created /\ \E resp \in HttpResponses(provider) : embedContent(resp)

CreateSpec == CreateInit /\ [][CreateNext]_vars

(***************************************************************************)
(* DiscoverySpec: the operations of ModelDiscovery on one provider, as the *)
(* clock advances                                                          *)
(***************************************************************************)
\* providers.json before the first operation: absent, the default one, one
\* that lacks the provider, one whose provider has no models yet
ConfigFiles(p) ==
  {NoConfigFile, DefaultConfigFile,
   [DefaultConfigFile EXCEPT !.providers[p] = NoConfigEntry],
   [DefaultConfigFile EXCEPT !.providers[p].models = <<>>]}

DiscoveryInit ==
  /\ providers = ConstructedRegistry
  /\ lastRegistered = ConstructedLastRegistered
  /\ result = NoResult
  /\ provider = "openai"
  /\ stream = <<>>
  /\ wire = <<>>
  /\ gen = IdleGenerator
  /\ consumer = "idle"
  /\ request = EmptyRequest
  /\ call = NoCall
  /\ instance = NoInstance
  /\ streams = NoStreams
  /\ \E target \in DiscoveryProviders, key \in {Undefined, "key"} :
     \E config \in ConfigFiles(target) :
       /\ disk = [NoDisk EXCEPT !.config = config]
       /\ session = [NoSession EXCEPT !.target = target,
                                      !.env = [NoEnv EXCEPT ![KeyVar(target)] = key]]

DiscoveryNext ==
  \/ Tick
  \/ \E p \in {session.target, "other"}, apiKey \in {Undefined, "key"},
        api \in ApiAnswers(session.target) : discoverModels(p, apiKey, api)
  \/ \E p \in {session.target, "other"}, apiKey \in {Undefined, "key"},
        api \in ApiAnswers(session.target) : updateProviderConfig(p, apiKey, api)
  \/ shouldUpdate(session.target)
  \/ updateStatus

DiscoverySpec == DiscoveryInit /\ [][DiscoveryNext]_vars

\* what a command is given as a provider name
CommandNames == {"", "openai", "ollama", "other"}

\* the .env files a session starts with: with none, one or both of the
\* required variables
EnvFiles ==
  {NoEnv, [NoEnv EXCEPT !["OPENAI_API_KEY"] = "sk-key"],
   [NoEnv EXCEPT !["OPENAI_API_KEY"] = "sk-key", !["OLLAMA_MODEL"] = "llama3"]}

\* context.services: the settings and the configuration, or one of them
Services ==
  {[settings |-> "settings", config |-> TRUE], [settings |-> Undefined, config |-> TRUE],
   [settings |-> "settings", config |-> FALSE]}

CommandInit ==
  /\ providers = ConstructedRegistry
  /\ lastRegistered = ConstructedLastRegistered
  /\ result = NoResult
  /\ provider = "openai"
  /\ stream = <<>>
  /\ wire = <<>>
  /\ gen = IdleGenerator
  /\ consumer = "idle"
  /\ request = EmptyRequest
  /\ call = NoCall
  /\ instance = NoInstance
  /\ streams = NoStreams
  /\ \E hasEnvFile \in BOOLEAN, services \in Services,
        config \in {NoConfigFile, DefaultConfigFile},
        authType \in {Undefined, "openai-api-key", "ollama-local"} :
     \E envFile \in IF hasEnvFile THEN EnvFiles ELSE {NoEnv} :
       /\ disk = [NoDisk EXCEPT !.hasEnvFile = hasEnvFile, !.envFile = envFile,
                                !.config = config, !.selectedType = authType]
       /\ session = [NoSession EXCEPT !.env = envFile,     \* loaded at startup
                                      !.context = services, !.authType = authType]

CommandNext ==
  \/ providerList
  \/ providerStatus
  \/ providerCompletion
  \/ modelCompletion
  \/ \E name \in CommandNames, apiKey \in {Undefined, "sk-new", "key"} :
       providerSetup(name, apiKey)
  \/ \E name \in CommandNames, validation \in {"", "invalid"},
        refresh \in {"resolved", "rejected"} : providerSwitch(name, validation, refresh)
  \/ \E name \in CommandNames, api \in {"ok", "status"} :
       providerDiscover(name, CommandAnswer(name, api))
  \/ \E api \in {"ok", "status"} : providerUpdate(api)
  \/ \E modelName \in {"", "gpt-4", "llama3", "unknown"}, tags \in {"ok", "rejected"},
        refresh \in {"resolved", "rejected"} : providerModel(modelName, tags, refresh)

CommandSpec == CommandInit /\ [][CommandNext]_vars

(***************************************************************************)
(* Properties of the registry (checked under RegistrySpec)                 *)
(***************************************************************************)
\* the names a createProvider error message lists after its fixed prefix
ListedNames(message) == Range(SubSeq(message, 4, Len(message)))

\* C1: createProvider with a name that is not registered fails, its message
\* names the requested name and lists every registered name, and no provider
\* is constructed.
C1_UnknownProviderFails ==
  (result.kind # "none" /\ ~hasProvider(result.registry, result.config.provider)) =>
    /\ result.kind = "error"
    /\ ~result.constructorCalled
    /\ Len(result.message) >= 3
    /\ result.message[1] = "Unknown provider: "
    /\ result.message[2] = result.config.provider
    /\ \A name \in Range(getAvailableProviders(result.registry)) :
         name \in ListedNames(result.message)

\* an unknown name was asked of a registry that a register call had extended
C1_Witness ==
  /\ result.kind = "error"
  /\ result.config.provider = "nonexistent"
  /\ hasProvider(result.registry, "custom")
  /\ "custom" \in ListedNames(result.message)

\* C2: on a freshly constructed registry, every available name creates, from a
\* config with that name, an apiKey and a model, a provider whose name is that
\* name and whose validateConfig accepts the config.
C2_EveryAvailableNameCreates ==
  ( /\ result.kind # "none"
    /\ result.registry = ConstructedRegistry
    /\ hasProvider(result.registry, result.config.provider)
    /\ ~Falsy(result.config.apiKey)
    /\ ~Falsy(result.config.model) ) =>
    /\ result.kind = "provider"
    /\ result.name = result.config.provider
    /\ validateConfig(result.cls, result.config)

NoDuplicateNames ==
  \A i, j \in 1..Len(providers) : providers[i][1] = providers[j][1] => i = j

\* C3: registration is append-only with last write wins: no step loses a
\* registered name, no name is listed twice, and createProvider calls the
\* constructor given in the most recent register call for the name.
C3_AppendOnlyLastWriteWins ==
  /\ []NoDuplicateNames
  /\ [][ /\ Range(getAvailableProviders(providers))
               \subseteq Range(getAvailableProviders(providers'))
         /\ (result' # result /\ result'.constructorCalled) =>
               result'.cls = lastRegistered'[result'.config.provider] ]_vars

\* a re-registered built-in name instantiated the test double
C3_Witness ==
  /\ result.kind = "provider"
  /\ result.config.provider = "openai"
  /\ result.cls = "TestDouble"
  /\ lastRegistered["openai"] = "TestDouble"
  /\ Len(providers) = 5

(***************************************************************************)
(* Properties of the stream generators (checked under StreamSpec)          *)
(***************************************************************************)
\* the consumer pulled until the sequence ended by itself
Drained == gen.pc = "done" /\ gen.exit \in {"readerDone", "sentinel"}

\* the text deltas of a sequence of elements, in order
Texts(elements) == [i \in 1..Len(elements) |-> elements[i].text]

\* C4: once the generator body has started, every way it ends (reader done,
\* sentinel or stop event, return() by the consumer, a failed read) releases
\* the reader lock exactly once, and nothing runs, no read is issued, after
\* the release.
C4_ReleasedExactlyOnce ==
  /\ gen.released <= 1
  /\ (gen.pc = "done" /\ gen.started) => gen.released = 1
  /\ gen.released = 1 => gen.pc = "done"
  /\ ~gen.readAfterRelease

\* the consumer stopped early, at a yield, and the lock was released
C4_Witness ==
  /\ gen.exit = "return"
  /\ gen.started
  /\ gen.out # <<>>
  /\ wire # <<>>
  /\ gen.released = 1

\* C5: when the caller discards the sequence at any point, also before the
\* first pull, the reader generateContentStream acquired is released.
C5_DiscardReleases == consumer = "discarded" => gen.released = 1

\* the line ends an event stream: the sentinel, or Anthropic's message_stop event
IsTerminal(p, line) ==
  LET t == Trim(line) IN
  \/ t = Sentinel
  \/ /\ p = "anthropic"
     /\ t # <<>>
     /\ Head(t) = DATA
     /\ ParseJSON(Tail(t)).ok
     /\ Chunk(ParseJSON(Tail(t)).sym).type = "message_stop"

\* the content delta a line of an event stream carries (empty when it is no
\* data line, or carries no text)
ContentDelta(line) ==
  LET t == Trim(line) IN
  IF t # <<>> /\ Head(t) = DATA /\ ParseJSON(Tail(t)).ok
  THEN Chunk(ParseJSON(Tail(t)).sym).content
  ELSE <<>>

RECURSIVE ContentBeforeTerminal(_, _)
\* the content deltas of the lines that precede the first terminal line, joined
ContentBeforeTerminal(p, lines) ==
  IF lines = <<>> \/ IsTerminal(p, Head(lines)) THEN <<>>
  ELSE ContentDelta(Head(lines)) \o ContentBeforeTerminal(p, Tail(lines))

HasSentinel(body) == \E i \in 1..Len(Split(body)) : Trim(Split(body)[i]) = Sentinel

\* C6: for an event-stream body that holds the sentinel, however the bytes are
\* cut into reads, the yielded text deltas joined are the content deltas of the
\* data lines before the terminal line, joined in order.
C6_EventStreamText ==
  (provider \in {"openai", "anthropic"} /\ Drained /\ HasSentinel(stream)) =>
    Flatten(Texts(gen.out)) = ContentBeforeTerminal(provider, Split(stream))

RECURSIVE LineReads(_)
\* the body cut into one network read per line
LineReads(body) ==
  IF body = <<>> THEN <<>>
  ELSE IF \A i \in 1..Len(body) : body[i] # NL THEN <<body>>
  ELSE LET i == CHOOSE j \in 1..Len(body) : body[j] = NL /\ \A k \in 1..(j - 1) : body[k] # NL
       IN <<SubSeq(body, 1, i)>> \o LineReads(SubSeq(body, i + 1, Len(body)))

RECURSIVE Drain(_, _, _)
\* the generator after a consumer pulled it to its end over the given reads
Drain(p, g, reads) ==
  IF g.pc = "done" THEN g
  ELSE IF g.pc \in {"start", "yield"} THEN Drain(p, Resume(p, g), reads)
  ELSE IF reads = <<>> THEN Drain(p, OnDone(p, g), reads)
  ELSE Drain(p, OnRead(p, g, Head(reads)), Tail(reads))

\* C7: for an NDJSON body, however the bytes are cut into reads, the yielded
\* text deltas are those yielded when every line arrives in a read of its own.
C7_NDJSONCutIndependent ==
  (provider \in {"ollama", "ollama-generate"} /\ Drained) =>
    Texts(gen.out) = Texts(Drain(provider, NewGenerator, LineReads(stream)).out)

\* C8: once the sentinel line, the stop event or a chunk with done = true has
\* been decoded, no element is yielded from a later line, no further read is
\* issued, and the reader is released when the generator ends.
C8_NothingAfterEnd ==
  gen.ended =>
    /\ ~gen.lateYield
    /\ ~gen.lateRead
    /\ gen.pc = "done" => gen.released = 1

\* complete lines on which JSON.parse throws
CorruptLines(p) ==
  IF p \in {"openai", "anthropic"}
  THEN {<<DATA, "text:a">>, <<DATA, "done">>, <<DATA, CLOSE>>}
  ELSE {<<"text:a">>, <<"done">>, <<CLOSE>>}

\* g with line c put before the i+1-th of the lines it has yet to process
InsertLine(g, i, c) ==
  [g EXCEPT !.lines = SubSeq(@, 1, i) \o <<c>> \o SubSeq(@, i + 1, Len(@))]

RECURSIVE BatchOutcome(_, _)
\* the generator once a consumer has pulled it through the lines it holds, up
\* to its next read or its end
BatchOutcome(p, g) ==
  IF g.pc \in {"read", "done"} THEN g ELSE BatchOutcome(p, Resume(p, g))

\* C9: a complete line that is not valid JSON raises nothing to the consumer
\* and changes nothing: wherever such a line stands among the lines the
\* generator holds at a yield, or among those of the rest of the body arriving
\* in one read, the generator yields, buffers and accumulates exactly as
\* without it.
C9_CorruptLineIsSkipped ==
  /\ gen.error => gen.readFailed
  /\ (gen.pc = "yield" /\ gen.at \in {"text", "final"}) =>
       \A c \in CorruptLines(provider), i \in 0..Len(gen.lines) :
         BatchOutcome(provider, InsertLine(gen, i, c)) = BatchOutcome(provider, gen)
  /\ gen.pc = "read" =>
       LET g1 == Batch(provider, gen, wire) IN
       \A c \in CorruptLines(provider), i \in 0..Len(g1.lines) :
         BatchOutcome(provider, ProcessLines(provider, InsertLine(g1, i, c)))
           = BatchOutcome(provider, ProcessLines(provider, g1))

\* a corrupt line between two valid NDJSON chunks: both were yielded
C9_Witness ==
  /\ provider = "ollama"
  /\ stream = Body(<< <<"text:a", CLOSE>>, <<"text:a">>, <<"text:b", CLOSE>> >>, TRUE)
  /\ Drained
  /\ ~gen.error
  /\ Texts(gen.out) = << <<"a">>, <<"b">> >>

\* the body delivers the two fragments of one tool call, then a done chunk
FragmentsThenDone(body) ==
  body = Body(<< <<"call:1", CLOSE>>, <<"call:2", CLOSE>>, <<"done", CLOSE>> >>, TRUE)

\* C10: a stream of two tool-call fragments and a done chunk ends with an
\* element of exactly one functionCall and empty text, and no earlier element
\* has functionCalls.
C10_FragmentsMakeOneCall ==
  (provider = "ollama" /\ FragmentsThenDone(stream) /\ Drained) =>
    /\ gen.out # <<>>
    /\ Len(Last(gen.out).functionCalls) = 1
    /\ Last(gen.out).text = <<>>
    /\ \A i \in 1..(Len(gen.out) - 1) : gen.out[i].functionCalls = <<>>

(***************************************************************************)
(* Streamed tool calls                                                     *)
(***************************************************************************)
\* the positions of the yielded elements that carry functionCalls
CallElements(out) == {i \in 1..Len(out) : out[i].functionCalls # <<>>}

\* C11: an Ollama stream yields at most one element with functionCalls; that
\* element has empty text and no text-bearing element follows it.
C11_TwoPhase ==
  provider = "ollama" =>
    /\ Cardinality(CallElements(gen.out)) <= 1
    /\ \A i \in CallElements(gen.out) :
         /\ gen.out[i].text = <<>>
         /\ \A j \in (i + 1)..Len(gen.out) : gen.out[j].text = <<>>

RECURSIVE CallsBeforeTerminal(_, _)
\* the tool-call deltas of the data lines that precede the first terminal line
CallsBeforeTerminal(p, lines) ==
  IF lines = <<>> \/ IsTerminal(p, Head(lines)) THEN <<>>
  ELSE LET t == Trim(Head(lines))
           calls == IF t # <<>> /\ Head(t) = DATA /\ ParseJSON(Tail(t)).ok
                    THEN Chunk(ParseJSON(Tail(t)).sym).tool_calls
                    ELSE <<>>
       IN calls \o CallsBeforeTerminal(p, Tail(lines))

\* C12: when an event stream that carried tool-call deltas has ended at its
\* completion signal, some yielded element holds every streamed tool call in
\* its functionCalls.
C12_StreamedCallsAreYielded ==
  LET streamed == CallsBeforeTerminal(provider, Split(stream)) IN
  (provider \in {"openai", "anthropic"} /\ Drained /\ gen.exit = "sentinel"
     /\ streamed # <<>>) =>
    \E i \in 1..Len(gen.out) :
      \A k \in 1..Len(streamed) :
        \E c \in 1..Len(gen.out[i].functionCalls) :
          gen.out[i].functionCalls[c].name = streamed[k].name

(***************************************************************************)
(* Properties of the provider methods (checked under ProviderSpec and      *)
(* ConfigSpec)                                                             *)
(***************************************************************************)
\* C13: generateContent and generateContentStream issue exactly one HTTP call;
\* on a status outside 200..299 they throw an error whose message carries the
\* status code and the status text, return nothing and acquire no reader.
C13_OneCallNoRetry ==
  call.name \in {"generateContent", "generateContentStream"} =>
    /\ call.fetches = 1
    /\ call.status \notin 200..299 =>
         /\ call.threw
         /\ ToString(call.status) \in Range(call.error)
         /\ StatusText(call.status) \in Range(call.error)
         /\ call.returned = "nothing"
         /\ ~call.reader

\* a streaming call answered with 500 has thrown
C13_Witness ==
  /\ call.name = "generateContentStream"
  /\ call.status = 500
  /\ call.threw
  /\ call.fetches = 1
  /\ request.contents # <<>>

\* the number of characters of all text parts of all content entries
FlattenedLength(req) ==
  Len(Flatten([i \in 1..Len(req.contents) |-> JoinedText(req.contents[i].parts)]))

\* C14: countTokens returns ceil(L / 4), L the number of characters of the
\* flattened text of the request's content entries.
C14_CeilOfQuarter ==
  call.name = "countTokens" => call.totalTokens = Ceil(FlattenedLength(request), 4)

\* C15: countTokens is monotone in the length of the flattened text: no
\* request with a text that is no longer gets more tokens from the same provider.
C15_Monotone ==
  call.name = "countTokens" =>
    \A r \in Requests :
      FlattenedLength(r) <= FlattenedLength(request) =>
        countTokensResult(provider, r) <= call.totalTokens

\* the backends that demand authentication
NeedsApiKey(cls) == cls # "OllamaProvider"

\* C16: validateConfig is true exactly when config.provider is the provider's
\* tag, config.model is non-empty and, where the backend demands
\* authentication, config.apiKey is non-empty.
C16_ValidateConfigIff ==
  call.name = "validateConfig" =>
    (call.valid <=>
       /\ call.config.provider = ClassName(call.cls)
       /\ ~Falsy(call.config.model)
       /\ NeedsApiKey(call.cls) => ~Falsy(call.config.apiKey))

\* C17: Anthropic's embedContent returns {embeddings: []}, fetches nothing and
\* does not throw.
C17_AnthropicEmbedIsEmpty ==
  (provider = "anthropic" /\ call.name = "embedContent") =>
    /\ call.returned = "embeddings"
    /\ call.embeddings = <<>>
    /\ call.fetches = 0
    /\ ~call.threw

\* Anthropic's embedContent was called with a request that holds text
C17_Witness ==
  /\ provider = "anthropic"
  /\ call.name = "embedContent"
  /\ call.returned = "embeddings"
  /\ FlattenedLength(request) > 0

\* C18: the response generateContent returns has a text that is the
\* concatenation of the text parts of its candidate, and functionCalls that
\* are the functionCall parts of that candidate, in order.
C18_ResponseInvariant ==
  (provider \in {"openai", "anthropic", "ollama"} /\ call.name = "generateContent"
     /\ call.returned = "response") =>
    /\ call.response.hasText
    /\ call.response.text = JoinedText(call.response.parts)
    /\ call.response.hasFunctionCalls
    /\ call.response.functionCalls = FunctionCallsOf(call.response.parts)

\* the messages translated from the content entries (not the system message)
ContentMessages(messages) == SelectSeq(messages, LAMBDA m : m.role # "system")

\* C19: a request of one content entry with functionCall parts is sent as one
\* assistant message with one tool-call record per functionCall part, in
\* order, and the entry's text as its content.
C19_CallsAndTextKept ==
  (call.name = "generateContent" /\ Len(request.contents) = 1
     /\ FilterParts(request.contents[1].parts, "functionCall") # <<>>) =>
    LET calls == FilterParts(request.contents[1].parts, "functionCall")
        ms == ContentMessages(call.messages)
    IN /\ Len(ms) = 1
       /\ ms[1].role = "assistant"
       /\ Len(ms[1].tool_calls) = Len(calls)
       /\ \A i \in 1..Len(calls) : ms[1].tool_calls[i].name = calls[i].name
       /\ ContentString(ms[1]) = JoinedText(request.contents[1].parts)

\* the tags of the tool results a message carries
ToolResultTags(m) ==
  IF m.role = "tool" THEN <<m.name>>
  ELSE LET results == SelectSeq(m.blocks, LAMBDA b : b.type = "tool_result")
       IN [i \in 1..Len(results) |-> results[i].tool_use_id]

\* C20: a request of one content entry with n functionResponse parts is sent
\* with n tool-result messages, one per part and in order, each tagged with
\* the name or id of its functionResponse.
C20_OneMessagePerResponse ==
  (call.name = "generateContent" /\ Len(request.contents) = 1
     /\ FilterParts(request.contents[1].parts, "functionResponse") # <<>>) =>
    LET responses == FilterParts(request.contents[1].parts, "functionResponse")
        ms == SelectSeq(call.messages, LAMBDA m : ToolResultTags(m) # <<>>)
    IN /\ Len(ms) = Len(responses)
       /\ \A i \in 1..Len(responses) :
            /\ Len(ToolResultTags(ms[i])) = 1
            /\ ToolResultTags(ms[i])[1] \in {responses[i].name, responses[i].id}

(***************************************************************************)
(* Properties of the decoding of responses (checked under DecodeSpec)      *)
(***************************************************************************)
\* the tool calls of a backend response, in the order the conversion meets them
BackendCalls(p, json) ==
  CASE p = "anthropic" ->
         LET uses == SelectSeq(json.blocks, LAMBDA b : b.type = "tool_use")
         IN [i \in 1..Len(uses) |-> [name |-> uses[i].name, arguments |-> uses[i].input]]
    [] p \in {"openai", "ollama"} ->
         LET calls == SelectSeq(json.tool_calls, LAMBDA t : t.hasFunction)
         IN [i \in 1..Len(calls) |-> [name |-> calls[i].name, arguments |-> calls[i].arguments]]
              \o (IF json.function_call
                  THEN <<[name |-> "legacy_call", arguments |-> json.function_call_arguments]>>
                  ELSE <<>>)
    [] OTHER -> <<>>

\* the arguments field is absent or empty
EmptyPayload(a) == a.kind = "absent" \/ a.value = ""

\* the arguments payload is present but no valid JSON
InvalidPayload(a) == a.kind = "string" /\ a.value # "" /\ ~a.valid

\* generateContent got a 2xx response with a JSON body
Converted == call.name = "generateContent" /\ call.status \in 200..299

\* the lines of the streamed body that hold something
StreamLines == SelectSeq(Split(stream), LAMBDA l : Trim(l) # <<>>)

\* the object an NDJSON line carries
LineSym(line) == ParseJSON(line).sym

\* an NDJSON stream of chunks with one tool call each, none with an invalid
\* payload, closed by one done chunk
CallsThenDone ==
  /\ Len(StreamLines) >= 2
  /\ \A i \in 1..(Len(StreamLines) - 1) :
       LineSym(StreamLines[i]) \in {"call:1", "call:empty", "call:absent"}
  /\ LineSym(Last(StreamLines)) = "done"

\* C21: a tool call of the backend whose arguments are absent or empty (the
\* empty string included) becomes a functionCall whose args are {} and raises
\* no error, in generateContent of every provider and in the stream of the
\* /api/chat provider.
C21_EmptyArgumentsDecode ==
  /\ (Converted /\ \A i \in 1..Len(BackendCalls(provider, call.json)) :
                     ~InvalidPayload(BackendCalls(provider, call.json)[i].arguments)) =>
       LET calls == BackendCalls(provider, call.json)
           functionCalls == FunctionCallsOf(call.response.parts)
       IN /\ ~call.threw
          /\ Len(functionCalls) = Len(calls)
          /\ \A i \in 1..Len(calls) :
               EmptyPayload(calls[i].arguments) => functionCalls[i].args = "{}"
  /\ (provider = "ollama" /\ Drained /\ CallsThenDone) =>
       /\ gen.out # <<>>
       /\ Len(Last(gen.out).functionCalls) = Len(StreamLines) - 1
       /\ \A i \in 1..(Len(StreamLines) - 1) :
            EmptyPayload(Chunk(LineSym(StreamLines[i])).tool_calls[1].arguments) =>
              Last(gen.out).functionCalls[i].args = "{}"

\* C22: a tool call whose arguments payload is present but no valid JSON makes
\* the operation fail with an error that reaches the caller: generateContent
\* throws, and a stream that is consumed to its end raises when the chunk with
\* that call is its first line.
C22_InvalidArgumentsPropagate ==
  /\ (Converted /\ \E i \in 1..Len(BackendCalls(provider, call.json)) :
                     InvalidPayload(BackendCalls(provider, call.json)[i].arguments)) =>
       call.threw /\ call.returned = "nothing"
  /\ ( /\ provider \in {"openai", "ollama"}
       /\ gen.pc = "done"
       /\ gen.exit # "return"
       /\ ~gen.readFailed
       /\ Len(Split(stream)) >= 2
       /\ LET first == Trim(Head(Split(stream))) IN
          \/ first = <<"call:bad", CLOSE>>
          \/ first = DataLine("call:bad") ) =>
       gen.error

\* the stop / finish indicator of a backend response
BackendIndicator(p, json) ==
  IF p \in {"openai", "anthropic"} THEN json.finish_reason ELSE json.done_reason

\* C26: finishReason of the canonical response is the backend's stop / finish
\* indicator, verbatim, whenever the backend supplies one, and the generic
\* "STOP" only when the backend omits it, in every provider.
C26_FinishReasonVerbatim ==
  (Converted /\ ~call.threw) =>
    call.response.finishReason =
      (IF BackendIndicator(provider, call.json) = Undefined THEN "STOP"
       ELSE BackendIndicator(provider, call.json))

(***************************************************************************)
(* Properties of the request translation (checked under TranslateSpec)     *)
(***************************************************************************)
\* the providers that send a list of messages
MessageProviders == {"openai", "anthropic", "ollama"}

\* every part of every entry is a text part
TextOnly(req) ==
  \A i \in 1..Len(req.contents) :
    \A j \in 1..Len(req.contents[i].parts) : req.contents[i].parts[j].kind = "text"

RECURSIVE ExpectedBodies(_)
\* the flattened texts of the entries that are not blank, in order
ExpectedBodies(contents) ==
  IF contents = <<>> THEN <<>>
  ELSE (IF TrimTruthy(JoinedText(Head(contents).parts))
        THEN <<JoinedText(Head(contents).parts)>> ELSE <<>>)
         \o ExpectedBodies(Tail(contents))

\* the bodies of the messages sent for the content entries
SentBodies ==
  LET messages == ContentMessages(call.messages)
  IN [i \in 1..Len(messages) |-> MessageBody(messages[i])]

\* C23: in the message conversion of every provider, a text entry whose
\* flattened text is empty or whitespace produces no message, and an entry
\* with non-blank text produces exactly one message, whose body is its text
\* parts joined in order.
C23_BlankEntriesDropped ==
  (call.name = "generateContent" /\ provider \in MessageProviders /\ TextOnly(request)) =>
    SentBodies = ExpectedBodies(request.contents)

\* no entry of the request is blank
NoBlankEntry(req) ==
  \A i \in 1..Len(req.contents) : TrimTruthy(JoinedText(req.contents[i].parts))

\* C24: in the message conversion of every provider, a text entry of role model
\* becomes an assistant message, one of role user a user message, and one whose
\* role is absent or any other value a user message.
C24_RoleMapping ==
  ( /\ call.name = "generateContent"
    /\ provider \in MessageProviders
    /\ TextOnly(request)
    /\ NoBlankEntry(request) ) =>
    LET messages == ContentMessages(call.messages) IN
    /\ Len(messages) = Len(request.contents)
    /\ \A i \in 1..Len(messages) :
         messages[i].role =
           (IF request.contents[i].role = "model" THEN "assistant" ELSE "user")

\* the system instructions a request carries
Instructions(req) == {req.systemInstruction, req.configSystemInstruction} \ {<<>>}

\* C25: a system instruction of the request is passed to the backend by every
\* provider: as the top-level system field by Anthropic, as a system message
\* placed before all other messages by the others.
C25_SystemInstructionSent ==
  (call.name = "generateContent" /\ Instructions(request) # {}) =>
    IF provider = "anthropic"
    THEN call.system \in Instructions(request)
    ELSE /\ call.messages # <<>>
         /\ call.messages[1].role = "system"
         /\ call.messages[1].content \in Instructions(request)

\* C27: for declarations with non-empty parameters, every provider sends one
\* tool per declaration, in order, with the declaration's name, description
\* and parameter schema, the schema unchanged.
C27_ToolSchemaKept ==
  ( /\ call.name = "generateContent"
    /\ request.tools # <<>>
    /\ \A i \in 1..Len(request.tools) : request.tools[i].parameters \in ParameterSchemas ) =>
    /\ Len(call.tools) = Len(request.tools)
    /\ \A i \in 1..Len(request.tools) :
         /\ call.tools[i].name = request.tools[i].name
         /\ call.tools[i].description = request.tools[i].description
         /\ call.tools[i].parameters = request.tools[i].parameters

\* the text content of a request: the text parts of its entries, in order
OriginalText(req) == Flatten([i \in 1..Len(req.contents) |-> JoinedText(req.contents[i].parts)])

AfterEvent(p, g, e) ==
  CASE e.type = "next" -> Resume(p, g)
    [] e.type = "return" -> Return(g)
    [] e.type = "read" -> OnRead(p, g, e.bytes)
    [] e.type = "done" -> OnDone(p, g)
    [] OTHER -> OnReadError(g)

RECURSIVE RunAlone(_, _, _)
\* the generator of a stream that runs alone through the events
RunAlone(p, g, events) ==
  IF events = <<>> THEN g
  ELSE RunAlone(p, AfterEvent(p, g, Head(events)), Tail(events))

C30_FailFast ==
  /\ result.kind = "error" => call.fetches = 0
  /\ call.fetches > 0 =>
       result.kind = "provider" /\ validateConfig(result.cls, result.config)

(***************************************************************************)
(* Properties of the end of a stream (checked under DecodeSpec and         *)
(* StreamSpec)                                                             *)
(***************************************************************************)
\* the reader reported done and the generator ended without an error
EndedNormally == gen.pc = "done" /\ gen.exit = "readerDone"

\* C36: in the /api/chat Ollama stream, when at least one tool call was
\* accumulated and the sequence ends normally, an element whose functionCalls
\* are all the accumulated calls has been yielded.
C36_AccumulatedCallsYielded ==
  (provider = "ollama" /\ EndedNormally /\ gen.accumulatedToolCalls # <<>>) =>
    \E i \in 1..Len(gen.out) :
      gen.out[i].functionCalls = ToolCallElement(gen.accumulatedToolCalls).functionCalls

\* the body ends in a line that no newline terminates
Unterminated(body) == body # <<>> /\ Last(body) # NL

\* C37: when the reader reports done while the carry-over holds a line that
\* was not terminated by a newline, the line is processed like any other: the
\* elements yielded and the tool calls accumulated are those of the same body
\* with the newline (OpenAI, Anthropic and /api/chat Ollama generators; bodies
\* without the sentinel line).
C37_ResidualRecordProcessed ==
  (/\ provider \in {"openai", "anthropic", "ollama"}
   /\ EndedNormally
   /\ Unterminated(stream)
   /\ ~HasSentinel(stream)) =>
    LET whole == Drain(provider, NewGenerator, <<stream \o <<NL>>>>) IN
    /\ gen.out = whole.out
    /\ gen.accumulatedToolCalls = whole.accumulatedToolCalls

(***************************************************************************)
(* Properties of model discovery (checked under DiscoverySpec)             *)
(***************************************************************************)
\* the most recent operation was discoverModels for a provider it knows
Discovered ==
  session.out.op = "discoverModels" /\ session.out.provider \in DiscoveryProviders

\* the age, at the call, of the entry getCachedModels gave it
Age == session.out.at - session.out.cached.lastUpdated

\* the call came less than 24 hours after the cached discovery
InWindow == session.out.cached # NoEntry /\ Age < CACHE_DURATION

\* the call came when the cached entry had expired
Expired == session.out.cached # NoEntry /\ Age >= CACHE_DURATION

\* the cache afterwards holds what the call returned, stamped with its time
Replaced ==
  /\ disk.cache[session.out.provider] = session.out.result
  /\ session.out.result.lastUpdated = session.out.at

Updated == session.out.op = "updateProviderConfig"

\* C33: when updateProviderConfig changes the provider's model list, a backup
\* holding providers.json as it was before the change is written first and
\* providers.json second; when it does not, nothing is written.
C33_BackupBeforeWrite ==
  Updated =>
    IF disk.config # session.out.before
    THEN session.out.writes =
           <<FileWrite("providers.json.backup", session.out.before),
             FileWrite("providers.json", disk.config)>>
    ELSE session.out.writes = <<>>

\* the provider's endpoint was asked and did not answer with a listing
ApiFailed == session.out.fetches > 0 /\ session.out.answer \in {"status", "rejected"}

\* C34: when the API call fails and a cached result exists, expired or not,
\* discoverModels returns the cached model list, not a failure with an empty
\* list, and the cached entry is unchanged.
C34_FallbackToCache ==
  (Discovered /\ ApiFailed /\ session.out.cached # NoEntry) =>
    /\ session.out.result.success
    /\ session.out.result.models = session.out.cached.models
    /\ disk.cache[session.out.provider] = session.out.cached

\* C38: shouldUpdateModels and getUpdateStatus report that no update is needed
\* exactly when discoverModels, called at that time, would answer from the
\* cache.
C38_FreshnessConsistent ==
  /\ session.out.op = "shouldUpdateModels" =>
       (~session.out.returned <=>
          CacheHit(getCachedModels(disk.cache, session.out.provider), session.out.at))
  /\ session.out.op = "getUpdateStatus" =>
       \A p \in DiscoveryProviders :
         ~session.out.status[p] <=> CacheHit(getCachedModels(disk.cache, p), session.out.at)

(***************************************************************************)
(* Properties of the /provider commands (checked under CommandSpec)        *)
(***************************************************************************)
\* C39: every /provider subcommand can be the first command of a session: no
\* handler (list, switch, setup, status, model, discover, update, or a
\* completion) uses the module-level provider manager before
\* getProviderManager has created it, so none ends in the TypeError of a
\* call on undefined.
C39_ManagerCreatedBeforeUse == session.out.threw # "TypeError"

\* the most recent command was /provider switch <provider>
Switched == session.out.op = "switch"

\* the provider named is one of the configuration, the .env file holds its
\* required variable, and validateAuthMethod reports no error
SwitchValid ==
  /\ session.out.provider \in DOMAIN session.manager.providersConfig
  /\ session.manager.providersConfig[session.out.provider].present
  /\ disk.hasEnvFile
  /\ disk.envFile[RequiredVar(session.out.provider)] \notin {Undefined, ""}
  /\ session.out.validation = ""

\* C35: /provider switch validates before switching: refreshAuth is called
\* only after the provider name is known, its required variables are
\* configured and validateAuthMethod reports no error; in every rejected case
\* refreshAuth is not called and the persisted selected auth type is
\* unchanged; and the selected auth type is persisted only after refreshAuth
\* has succeeded (a failing refreshAuth leaves it unchanged).
C35_ValidateBeforeSwitch ==
  Switched =>
    /\ session.out.refreshed \in {0, 1}
    /\ session.out.refreshed = 1 => SwitchValid
    /\ ~SwitchValid => session.out.refreshed = 0 /\ disk.selectedType = session.out.selectedBefore
    /\ session.out.refresh # "resolved" => disk.selectedType = session.out.selectedBefore
    /\ disk.selectedType # session.out.selectedBefore =>
         /\ session.out.refresh = "resolved"
         /\ disk.selectedType = AuthTypeOf(session.out.provider)

\* a valid switch to another provider went through: refreshAuth succeeded and
\* the new auth type was persisted
C35_Witness ==
  /\ Switched /\ SwitchValid
  /\ session.out.refreshed = 1 /\ session.out.refresh = "resolved"
  /\ disk.selectedType = AuthTypeOf(session.out.provider)
  /\ disk.selectedType # session.out.selectedBefore

\* a valid switch whose refreshAuth failed
C35_RefreshFailed ==
  Switched /\ SwitchValid /\ session.out.refresh = "rejected"

\* the most recent command was /provider model <name>, the session has a
\* current provider, and the command ended in failure: an error message, or
\* the rejection of refreshAuth leaving the handler
ModelFailed ==
  /\ session.out.op = "model" /\ session.out.provider # ""
  /\ session.out.current # ""
  /\ session.out.messageType = "error" \/ session.out.threw = "refreshAuth"

\* C40: /provider model <name> is all-or-nothing: whenever the command ends
\* in failure (unknown model, Ollama unreachable, or refreshAuth failing), the
\* provider's model variable in the process environment and in the .env file
\* keeps the value it had before the command.
C40_ModelAllOrNothing ==
  ModelFailed =>
    /\ session.env[ModelVar(session.out.current)] = session.out.envBefore
    /\ disk.envFile[ModelVar(session.out.current)] = session.out.fileBefore

\* the most recent command was /provider discover <provider> for a provider
\* with a model endpoint, and it reached the discovery
ManualDiscover ==
  /\ session.out.op = "discover" /\ session.out.discovered
  /\ session.out.provider \in {"openai", "anthropic", "ollama"}

\* C32: a manual update, /provider discover <provider>, always forces a fresh
\* API call for that provider and ignores the cache, even when a cached entry
\* younger than 24 hours exists.
C32_ManualDiscoverIgnoresCache ==
  ManualDiscover => session.out.fetches = 1

====
